---------------------------- MODULE Spec2Model ----------------------------
(***************************************************************************)
(* Block and transaction validation (src/validate.go): the context-free    *)
(* sanity checks and checkConnectBlock with its helpers, as a state        *)
(* machine that walks checkConnectBlock step by step over a block, a node  *)
(* and the answers of its collaborators.                                   *)
(***************************************************************************)
EXTENDS Integers, Sequences, FiniteSets, TLC

(***************************************************************************)
(* Wide integers.  The code computes on int64, int and uint32; the model   *)
(* checker has 32-bit integers, so an integer v is held                    *)
(* as <<a, b, c>> with v = a*Limb^2 + b*Limb + c, 0 <= b, c < Limb and a   *)
(* any (small) integer.  The representation is canonical, so = is equality *)
(* and the order is lexicographic.  Add and Sub are exact; Wrap64 reduces  *)
(* an exact result to the two's complement int64 range as Go does.         *)
(***************************************************************************)
Limb == 10 ^ 8

Big(a, b, c) == <<a, b, c>>

BigOf(n) == <<(n \div Limb) \div Limb, (n \div Limb) % Limb, n % Limb>>

Zero == BigOf(0)

Add(x, y) ==
    LET c == x[3] + y[3]
        b == x[2] + y[2] + (c \div Limb)
        a == x[1] + y[1] + (b \div Limb)
    IN  <<a, b % Limb, c % Limb>>

Sub(x, y) ==
    LET c == x[3] - y[3]
        b == x[2] - y[2] + (c \div Limb)
        a == x[1] - y[1] + (b \div Limb)
    IN  <<a, b % Limb, c % Limb>>

Lt(x, y) ==
    \/ x[1] < y[1]
    \/ x[1] = y[1] /\ x[2] < y[2]
    \/ x[1] = y[1] /\ x[2] = y[2] /\ x[3] < y[3]

Le(x, y) == ~Lt(y, x)

\* 2^63 - 1, -2^63 and 2^64.
MaxInt64 == Big(922, 33720368, 54775807)
MinInt64 == Big(-923, 66279631, 45224192)
Two64 == Big(1844, 67440737, 9551616)

\* math.MaxUint32 = 2^32 - 1.
MaxUint32 == Big(0, 42, 94967295)

Wrap64(x) ==
    IF Lt(MaxInt64, x) THEN Sub(x, Two64)
    ELSE IF Lt(x, MinInt64) THEN Add(x, Two64)
    ELSE x

\* Go's + and - on int64 (and on int, 64 bits wide on the builds modelled).
I64Add(x, y) == Wrap64(Add(x, y))
I64Sub(x, y) == Wrap64(Sub(x, y))

\* x >> 1 for x >= 0.
Half(x) ==
    LET b == x[2] + (x[1] % 2) * Limb
        c == x[3] + (b % 2) * Limb
    IN  <<x[1] \div 2, b \div 2, c \div 2>>

RECURSIVE Shr(_, _)
\* x >> n for x >= 0 and an unsigned shift count n: Go defines a shift by the
\* width or more as 0 for a non-negative operand.
Shr(x, n) ==
    IF n >= 64 THEN Zero
    ELSE IF n = 0 \/ x = Zero THEN x
    ELSE Shr(Half(x), n - 1)

\* The value of a wide integer that fits the model checker's integers.
ToInt(x) == (x[1] * Limb + x[2]) * Limb + x[3]

\* n * m as a wide integer, for 0 <= n, m < Limb (by half limbs, so that no
\* partial product leaves 32 bits).
Times(n, m) ==
    LET h   == 10 ^ 4
        mid == (n \div h) * (m % h) + (n % h) * (m \div h)
    IN  Add(<<0, (n \div h) * (m \div h) + (mid \div h), 0>>,
            Add(BigOf((mid % h) * h), BigOf((n % h) * (m % h))))

(***************************************************************************)
(* Constants of src/validate.go.                                           *)
(***************************************************************************)
satoshiPerBitcoin == 100000000
maxSatoshi == Times(21000000, satoshiPerBitcoin)
\* btcwire.MaxBlockPayload
MaxBlockPayload == 1000000
maxSigOpsPerBlock == MaxBlockPayload \div 50
lockTimeThreshold == 500000000
minCoinbaseScriptLen == 2
maxCoinbaseScriptLen == 100
serializedHeightVersion == 2
baseSubsidy == Times(50, satoshiPerBitcoin)
subsidyHalvingInterval == 210000
coinbaseMaturity == 100
\* btcscript.Bip16Activation = time.Unix(1333238400, 0), in Unix seconds.
Bip16Activation == 1333238400

zeroHash == "0000000000000000000000000000000000000000000000000000000000000000"
block91842Hash == "00000000000a4d0a398161ffc163c503763b1f4360639393e0e4c8e300e0caec"
block91880Hash == "00000000000743f190a18c5577a3c2d2a1f610ae9601ac046a38084ccb7cd721"
\* btcwire.GenesisHash
GenesisHash == "000000000019d6689c085ae165831e934ff763ae46a2a6c172b3f1b60a8ce26f"

(***************************************************************************)
(* Errors.  An error value keeps its Go type and the fixed head of its     *)
(* message; nil is NoError.  A run-time panic (nil dereference, index out  *)
(* of range) is an outcome of its own.                                     *)
(***************************************************************************)
NoError == [type |-> "nil", text |-> ""]
RuleError(str) == [type |-> "RuleError", text |-> str]
Errorf(str) == [type |-> "error", text |-> str]
Panic(str) == [type |-> "panic", text |-> str]
\* btcdb.TxShaMissing
TxShaMissing == Errorf("btcdb.TxShaMissing")

\* A nil *btcwire.MsgTx.
NilTx == [isNil |-> TRUE]

(***************************************************************************)
(* Data.  A transaction is [sha, shaErr, TxIn, TxOut, LockTime]: sha is    *)
(* what TxSha returns and shaErr whether it fails.  An input is            *)
(* [PreviousOutpoint |-> [Hash, Index], SignatureScript, Sequence], an     *)
(* output [Value, PkScript].  Scripts are opaque to this package: a        *)
(* signature script is [len, sigOps, redeemSigOps] and a public key script *)
(* [sigOps, p2sh], the answers of btcscript.GetSigOpCount,                 *)
(* GetPreciseSigOpCount (of a pay-to-script-hash spend) and                *)
(* IsPayToScriptHash.  A store entry (txData) is                           *)
(* [tx, blockHeight, spent, err].                                          *)
(***************************************************************************)
isNullOutpoint(outpoint) ==
    outpoint.Index = MaxUint32 /\ outpoint.Hash = zeroHash

isCoinBase(msgTx) ==
    IF Len(msgTx.TxIn) # 1 THEN FALSE
    ELSE LET prevOut == msgTx.TxIn[1].PreviousOutpoint
         IN  ~(prevOut.Index # MaxUint32 \/ prevOut.Hash # zeroHash)

\* Lines 114-144 with a lock time of exactly lockTimeThreshold taken as a
\* block height.
isFinalizedTransactionAtThreshold(msgTx, blockHeight, blockTime) ==
    LET lockTime == msgTx.LockTime
        blockTimeOrHeight == IF Le(lockTime, BigOf(lockTimeThreshold))
                             THEN blockHeight ELSE blockTime
    IN  IF lockTime = Zero THEN TRUE
        ELSE IF Lt(lockTime, blockTimeOrHeight) THEN TRUE
        ELSE \A k \in 1..Len(msgTx.TxIn) : msgTx.TxIn[k].Sequence = MaxUint32

\* Lines 114-144.  blockTime is blockTime.Unix().
isFinalizedTransaction(msgTx, blockHeight, blockTime) ==
    LET lockTime == msgTx.LockTime
        blockTimeOrHeight == IF Lt(lockTime, BigOf(lockTimeThreshold))
                             THEN blockHeight ELSE blockTime
    IN  IF lockTime = Zero THEN TRUE
        ELSE IF Lt(lockTime, blockTimeOrHeight) THEN TRUE
        ELSE \A k \in 1..Len(msgTx.TxIn) : msgTx.TxIn[k].Sequence = MaxUint32

isBIP0030Node(n) ==
    \/ n.height = 91842 /\ n.hash = block91842Hash
    \/ n.height = 91880 /\ n.hash = block91880Hash

\* Lines 171-174 with the shift count taken modulo the width, as a machine
\* shift takes it.
calcBlockSubsidyMasked(height) ==
    IF height <= -subsidyHalvingInterval THEN Zero
    ELSE IF height < 0 THEN baseSubsidy
    ELSE Shr(baseSubsidy, (height \div subsidyHalvingInterval) % 64)

\* uint(height/subsidyHalvingInterval): Go's / truncates toward zero, and the
\* conversion of a negative quotient to uint gives a count of 2^63 or more.
calcBlockSubsidy(height) ==
    IF height <= -subsidyHalvingInterval THEN Zero
    ELSE IF height < 0 THEN baseSubsidy
    ELSE Shr(baseSubsidy, height \div subsidyHalvingInterval)

RECURSIVE SumSigOps(_, _)
\* The accumulation of countSigOps over a sequence of scripts.
SumSigOps(scripts, acc) ==
    IF scripts = << >> THEN acc
    ELSE SumSigOps(Tail(scripts), I64Add(acc, Head(scripts).sigOps))

countSigOps(msgTx) ==
    SumSigOps([k \in 1..Len(msgTx.TxOut) |-> msgTx.TxOut[k].PkScript],
              SumSigOps([k \in 1..Len(msgTx.TxIn) |-> msgTx.TxIn[k].SignatureScript],
                        Zero))

RECURSIVE P2SHLoopEveryInput(_, _, _, _)
\* The input loop of countP2SHSigOps without the test of lines 366-368:
\* the inputs spending other scripts are counted as well.
P2SHLoopEveryInput(msgTx, store, k, totalSigOps) ==
    IF k > Len(msgTx.TxIn) THEN [n |-> totalSigOps, err |-> NoError]
    ELSE
      LET txIn == msgTx.TxIn[k]
          txInHash == txIn.PreviousOutpoint.Hash
          originTxIndex == txIn.PreviousOutpoint.Index
      IN
      IF \/ txInHash \notin DOMAIN store
         \/ store[txInHash].err # NoError
         \/ store[txInHash].tx = NilTx
      THEN [n |-> Zero, err |-> Errorf("unable to find input transaction")]
      ELSE IF Le(BigOf(Len(store[txInHash].tx.TxOut)), originTxIndex)
      THEN [n |-> Zero, err |-> Errorf("out of bounds input index")]
      ELSE
        LET next == I64Add(totalSigOps, txIn.SignatureScript.redeemSigOps) IN
        IF Lt(next, totalSigOps)
        THEN [n |-> Zero, err |-> Errorf("too many signature operations - overflow")]
        ELSE P2SHLoopEveryInput(msgTx, store, k + 1, next)

RECURSIVE P2SHLoop(_, _, _, _)
\* The input loop of countP2SHSigOps from input k on, totalSigOps so far.
P2SHLoop(msgTx, store, k, totalSigOps) ==
    IF k > Len(msgTx.TxIn) THEN [n |-> totalSigOps, err |-> NoError]
    ELSE
      LET txIn == msgTx.TxIn[k]
          txInHash == txIn.PreviousOutpoint.Hash
          originTxIndex == txIn.PreviousOutpoint.Index
      IN
      IF \/ txInHash \notin DOMAIN store
         \/ store[txInHash].err # NoError
         \/ store[txInHash].tx = NilTx
      THEN [n |-> Zero, err |-> Errorf("unable to find input transaction")]
      ELSE IF Le(BigOf(Len(store[txInHash].tx.TxOut)), originTxIndex)
      THEN [n |-> Zero, err |-> Errorf("out of bounds input index")]
      ELSE
        LET pkScript == store[txInHash].tx.TxOut[ToInt(originTxIndex) + 1].PkScript
            numSigOps == txIn.SignatureScript.redeemSigOps
            next == I64Add(totalSigOps, numSigOps)
        IN
        IF ~pkScript.p2sh THEN P2SHLoop(msgTx, store, k + 1, totalSigOps)
        ELSE IF Lt(next, totalSigOps)
        THEN [n |-> Zero, err |-> Errorf("too many signature operations - overflow")]
        ELSE P2SHLoop(msgTx, store, k + 1, next)

countP2SHSigOps(msgTx, isCoinBaseTx, store) ==
    IF isCoinBaseTx THEN [n |-> Zero, err |-> NoError]
    ELSE IF msgTx.shaErr THEN [n |-> Zero, err |-> Errorf("TxSha")]
    ELSE P2SHLoop(msgTx, store, 1, Zero)

\* Lines 498-519.  The signature script is held by its bytes; copy takes
\* sigScript[1:4], three bytes, into a zeroed buffer of four.
checkSerializedHeight(coinbaseTx, wantHeight) ==
    LET sigScript == coinbaseTx.TxIn[1].SignatureScript.bytes
        serializedHeight == sigScript[2] + 256 * sigScript[3] + 65536 * sigScript[4]
    IN  IF Len(sigScript) < 4
        THEN RuleError("the coinbase signature script must start with the serialized block height")
        ELSE IF serializedHeight # wantHeight
        THEN RuleError("the coinbase signature script serialized block height is not the expected")
        ELSE NoError

isTransactionSpent(txD) == \A k \in 1..Len(txD.spent) : txD.spent[k]

(***************************************************************************)
(* The context-free checks.                                                *)
(***************************************************************************)
DigitChars == <<"0", "1", "2", "3", "4", "5", "6", "7", "8", "9">>

RECURSIVE PadDecimal(_, _)
\* The decimal digits of n >= 0, zero-padded to w digits.
PadDecimal(n, w) ==
    IF w = 0 THEN ""
    ELSE PadDecimal(n \div 10, w - 1) \o DigitChars[(n % 10) + 1]

RECURSIVE Decimal(_)
\* The decimal digits of n >= 0, as %v prints an integer.
Decimal(n) ==
    IF n < 10 THEN DigitChars[n + 1]
    ELSE Decimal(n \div 10) \o DigitChars[(n % 10) + 1]

\* %v of a uint32 held as a wide integer.
DecimalU32(x) ==
    IF x[2] = 0 THEN Decimal(x[3]) ELSE Decimal(x[2]) \o PadDecimal(x[3], 8)

\* Line 236 with the index left out of the key.
OutpointKeyOfHash(prevOut) == prevOut.Hash

\* Line 236: fmt.Sprintf("%v%v", prevOut.Hash, prevOut.Index).
OutpointKey(prevOut) == prevOut.Hash \o DecimalU32(prevOut.Index)

RECURSIVE OutputLoopUncapped(_, _, _)
\* Lines 200-230 without the test of the total against maxSatoshi.
OutputLoopUncapped(txOut, k, totalSatoshi) ==
    IF k > Len(txOut) THEN NoError
    ELSE
      LET satoshi == txOut[k].Value
          total == I64Add(totalSatoshi, satoshi)
      IN
      IF Lt(satoshi, Zero)
      THEN RuleError("transaction output has negative value")
      ELSE IF Lt(maxSatoshi, satoshi)
      THEN RuleError("transaction output value is higher than max allowed value")
      ELSE IF Lt(total, Zero)
      THEN RuleError("total value of all transaction outputs has negative value")
      ELSE OutputLoopUncapped(txOut, k + 1, total)

RECURSIVE OutputLoopTotalFirst(_, _, _)
\* Lines 200-230 with the total tested before the value of the output.
OutputLoopTotalFirst(txOut, k, totalSatoshi) ==
    IF k > Len(txOut) THEN NoError
    ELSE
      LET satoshi == txOut[k].Value
          total == I64Add(totalSatoshi, satoshi)
      IN
      IF Lt(total, Zero)
      THEN RuleError("total value of all transaction outputs has negative value")
      ELSE IF Lt(maxSatoshi, total)
      THEN RuleError("total value of all transaction outputs is higher than max allowed value")
      ELSE IF Lt(satoshi, Zero)
      THEN RuleError("transaction output has negative value")
      ELSE IF Lt(maxSatoshi, satoshi)
      THEN RuleError("transaction output value is higher than max allowed value")
      ELSE OutputLoopTotalFirst(txOut, k + 1, total)

RECURSIVE OutputLoop(_, _, _)
\* Lines 200-230 from output k on, totalSatoshi so far.
OutputLoop(txOut, k, totalSatoshi) ==
    IF k > Len(txOut) THEN NoError
    ELSE
      LET satoshi == txOut[k].Value
          total == I64Add(totalSatoshi, satoshi)
      IN
      IF Lt(satoshi, Zero)
      THEN RuleError("transaction output has negative value")
      ELSE IF Lt(maxSatoshi, satoshi)
      THEN RuleError("transaction output value is higher than max allowed value")
      ELSE IF Lt(total, Zero)
      THEN RuleError("total value of all transaction outputs has negative value")
      ELSE IF Lt(maxSatoshi, total)
      THEN RuleError("total value of all transaction outputs is higher than max allowed value")
      ELSE OutputLoop(txOut, k + 1, total)

RECURSIVE DuplicateLoop(_, _, _)
\* Lines 233-241 from input k on, existingTxOut the keys seen.
DuplicateLoop(txIn, k, existingTxOut) ==
    IF k > Len(txIn) THEN NoError
    ELSE IF OutpointKey(txIn[k].PreviousOutpoint) \in existingTxOut
    THEN RuleError("transaction contains duplicate outpoint")
    ELSE DuplicateLoop(txIn, k + 1,
                       existingTxOut \cup {OutpointKey(txIn[k].PreviousOutpoint)})

checkTransactionSanity(tx) ==
    IF Len(tx.TxIn) = 0 THEN RuleError("transaction has no inputs")
    ELSE IF Len(tx.TxOut) = 0 THEN RuleError("transaction has no outputs")
    ELSE IF OutputLoop(tx.TxOut, 1, Zero) # NoError THEN OutputLoop(tx.TxOut, 1, Zero)
    ELSE IF DuplicateLoop(tx.TxIn, 1, {}) # NoError THEN DuplicateLoop(tx.TxIn, 1, {})
    ELSE IF isCoinBase(tx)
    THEN IF \/ tx.TxIn[1].SignatureScript.len < minCoinbaseScriptLen
            \/ tx.TxIn[1].SignatureScript.len > maxCoinbaseScriptLen
         THEN RuleError("coinbase transaction script length is out of range")
         ELSE NoError
    ELSE IF \E k \in 1..Len(tx.TxIn) : isNullOutpoint(tx.TxIn[k].PreviousOutpoint)
    THEN RuleError("transaction input refers to previous output that is null")
    ELSE NoError

\* Lines 270-301.  header.target is CompactToBig(header.Bits), blk.hashNum
\* ShaHashToBig of the block hash, blk.shaErr the error of block.Sha().
checkProofOfWork(blk, powLimit) ==
    IF blk.header.target <= 0
    THEN RuleError("block target difficulty is too low")
    ELSE IF blk.header.target > powLimit
    THEN RuleError("block target difficulty is higher than max")
    ELSE IF blk.shaErr # NoError THEN blk.shaErr
    ELSE IF blk.hashNum > blk.header.target
    THEN RuleError("block hash is higher than expected max")
    ELSE NoError

\* The test of lines 485 and 781 with a total of exactly the cap refused.
SigOpsBelowCap(lastSigOps, total) ==
    ~(Lt(total, lastSigOps) \/ Le(BigOf(maxSigOpsPerBlock), total))

\* last <= total <= maxSigOpsPerBlock, the test of lines 485 and 781 negated.
SigOpsInRange(lastSigOps, total) ==
    ~(Lt(total, lastSigOps) \/ Lt(BigOf(maxSigOpsPerBlock), total))

RECURSIVE SanitySigOpLoop(_, _, _)
\* Lines 479-491 from transaction k on, totalSigOps so far.
SanitySigOpLoop(txs, k, total) ==
    IF k > Len(txs) THEN NoError
    ELSE IF ~SigOpsInRange(total, I64Add(total, countSigOps(txs[k])))
    THEN RuleError("block contains too many signature operations")
    ELSE SanitySigOpLoop(txs, k + 1, I64Add(total, countSigOps(txs[k])))

\* BuildMerkleTreeStore is not part of this package: the root it computes is
\* held as the sequence of the transaction hashes it is computed from.
CalculatedMerkleRoot(blk) == [k \in 1..Len(blk.Transactions) |-> blk.Transactions[k].sha]

\* block.TxShas() fails when TxSha fails on one of the block's transactions.
TxShasFails(blk) == \E k \in 1..Len(blk.Transactions) : blk.Transactions[k].shaErr

\* Lines 469-475 left out: no hash is looked up among those seen.
DuplicateHashesUnseen(txs) == FALSE

\* Lines 469-475: a hash of the block is in existingTxHashes when it comes up.
DuplicateHashes(txs) == \E k, m \in 1..Len(txs) : k < m /\ txs[k].sha = txs[m].sha

\* Lines 394-494.  now is time.Now() in Unix seconds.
checkBlockSanity(blk, powLimit, now) ==
    LET txs == blk.Transactions IN
    IF checkProofOfWork(blk, powLimit) # NoError THEN checkProofOfWork(blk, powLimit)
    ELSE IF blk.header.Timestamp > now + 2 * 3600
    THEN RuleError("block timestamp is too far in the future")
    ELSE IF Len(txs) = 0 THEN RuleError("block does not contain any transactions")
    ELSE IF ~isCoinBase(txs[1])
    THEN RuleError("first transaction in block is not a coinbase")
    ELSE IF \E k \in 2..Len(txs) : isCoinBase(txs[k])
    THEN RuleError("block contains second coinbase")
    ELSE IF \E k \in 1..Len(txs) : checkTransactionSanity(txs[k]) # NoError
    THEN checkTransactionSanity(
             txs[CHOOSE k \in 1..Len(txs) :
                    /\ checkTransactionSanity(txs[k]) # NoError
                    /\ \A m \in 1..(k - 1) : checkTransactionSanity(txs[m]) = NoError])
    ELSE IF blk.header.MerkleRoot # CalculatedMerkleRoot(blk)
    THEN RuleError("block merkle root is invalid")
    ELSE IF TxShasFails(blk) THEN Errorf("TxSha")
    ELSE IF DuplicateHashes(txs)
    THEN RuleError("block contains duplicate transaction")
    ELSE SanitySigOpLoop(txs, 1, Zero)

RECURSIVE BIP0030Loop(_, _)
\* The loop of checkBIP0030 over the results of fetchTxList, from result k on.
BIP0030Loop(txResults, k) ==
    IF k > Len(txResults) THEN NoError
    ELSE IF txResults[k].err = TxShaMissing THEN BIP0030Loop(txResults, k + 1)
    ELSE IF txResults[k].err = NoError
    THEN IF ~isTransactionSpent(txResults[k])
         THEN RuleError("tried to overwrite transaction")
         ELSE BIP0030Loop(txResults, k + 1)
    ELSE txResults[k].err

\* chain answers fetchTxList with chain.fetchTxListErr and chain.txResults.
checkBIP0030(blk, chain) ==
    IF TxShasFails(blk) THEN NoError
    ELSE IF chain.fetchTxListErr # NoError THEN chain.fetchTxListErr
    ELSE BIP0030Loop(chain.txResults, 1)

(***************************************************************************)
(* The state.  node, block and noVerify are the inputs of one              *)
(* checkConnectBlock call and chain holds what the collaborators answer    *)
(* during it: fetchTxList (fetchTxListErr, txResults),                     *)
(* fetchInputTransactions (fetchInputErr, store), LatestCheckpoint         *)
(* (checkpoint) and checkBlockScripts (scriptsErr).  pc is the position    *)
(* in checkConnectBlock, i the transaction and j the input the loops are   *)
(* at; txInputStore, totalSigOps, totalSatoshiIn and totalFees are the     *)
(* locals of that name; fees lists what checkTransactionInputs returned;   *)
(* err is the returned error once pc = "done"; calls counts the calls      *)
(* of checkBIP0030 and of the collaborators.  sanityErr is what            *)
(* checkBlockSanity returned on the block (Unchecked before it ran):       *)
(* checkConnectBlock does not read it and runs whatever the verdict.       *)
(* first is what the first of two calls on the same inputs returned and    *)
(* left behind, NoRun during the first call.  args and result are the      *)
(* arguments and the return value of a call of one of the package's        *)
(* functions on its own, NoArgs and Pending where none is made.            *)
(***************************************************************************)
VARIABLES node, block, noVerify, chain, pc, i, j, txInputStore, totalSigOps,
          totalSatoshiIn, totalFees, fees, err, calls, sanityErr, first,
          args, result

\* The state of the packages controlPanel and messages.  dbLock is the
\* mutex behind StatePointer.GetAndLockDB and UnlockDB: 0 when unlocked,
\* else the request whose GetAndLockDB locked it.  lookup holds, by request,
\* the lookup helper of searchResultHandler.go it runs and its position in
\* it; crashed is set when the runtime has ended the program.  msg is a
\* CommitEntryMsg with what its Validate calls returned, ebal the
\* entry-credit balance of its ECPubKey.
VARIABLES dbLock, lookup, crashed, msg, ebal

btcchain == <<node, block, noVerify, chain, pc, i, j, txInputStore, totalSigOps,
              totalSatoshiIn, totalFees, fees, err, calls, sanityErr, first,
              args, result>>

elsewhere == <<dbLock, lookup, crashed, msg, ebal>>

vars == <<btcchain, elsewhere>>

\* No request is served and no message is held.
NoMessage == [held |-> FALSE]

AtRest ==
    /\ dbLock = 0
    /\ lookup = << >>
    /\ crashed = FALSE
    /\ msg = NoMessage
    /\ ebal = 0

inputs == <<node, block, noVerify, chain>>

transactions == block.Transactions

\* return e
Return(e) == pc' = "done" /\ err' = e

Unchecked == [type |-> "unchecked", text |-> ""]

\* Lines 394-494, applied to the block before checkConnectBlock is called.
BlockSanity ==
    /\ pc = "sanity"
    /\ sanityErr' = checkBlockSanity(block, chain.powLimit, chain.now)
    /\ pc' = "start"
    /\ UNCHANGED <<elsewhere, inputs, first, args, result, i, j, txInputStore, totalSigOps, totalSatoshiIn,
                   totalFees, fees, err, calls>>

\* Lines 714-716 left out: the genesis block is checked like any other.
GenesisCheckDropped ==
    /\ pc = "start"
    /\ pc' = "bip30" /\ err' = err
    /\ UNCHANGED <<elsewhere, inputs, first, args, result, i, j, txInputStore, totalSigOps, totalSatoshiIn,
                   totalFees, fees, calls, sanityErr>>

\* Lines 714-716: the genesis block is not checked.
GenesisCheck ==
    /\ pc = "start"
    /\ IF node.hash = GenesisHash
       THEN Return(NoError)
       ELSE pc' = "bip30" /\ err' = err
    /\ UNCHANGED <<elsewhere, inputs, first, args, result, i, j, txInputStore, totalSigOps, totalSatoshiIn,
                   totalFees, fees, calls, sanityErr>>

enforceBIP0030 == ~isBIP0030Node(node)

\* Lines 726-732 with the error of checkBIP0030 dropped.
BIP0030Unheeded ==
    /\ pc = "bip30"
    /\ IF enforceBIP0030
       THEN calls' = [calls EXCEPT !.checkBIP0030 = @ + 1,
                                   !.fetchTxList =
                                       IF TxShasFails(block) THEN @ ELSE @ + 1]
       ELSE calls' = calls
    /\ pc' = "fetch" /\ err' = err
    /\ UNCHANGED <<elsewhere, inputs, first, args, result, i, j, txInputStore, totalSigOps, totalSatoshiIn,
                   totalFees, fees, sanityErr>>

\* Lines 726-732.
BIP0030 ==
    /\ pc = "bip30"
    /\ IF enforceBIP0030
       THEN /\ calls' = [calls EXCEPT !.checkBIP0030 = @ + 1,
                                      !.fetchTxList =
                                          IF TxShasFails(block) THEN @ ELSE @ + 1]
            /\ IF checkBIP0030(block, chain) # NoError
               THEN Return(checkBIP0030(block, chain))
               ELSE pc' = "fetch" /\ err' = err
       ELSE pc' = "fetch" /\ err' = err /\ calls' = calls
    /\ UNCHANGED <<elsewhere, inputs, first, args, result, i, j, txInputStore, totalSigOps, totalSatoshiIn,
                   totalFees, fees, sanityErr>>

\* Lines 738-741 (and the entry of the loop of line 760).
FetchInputTransactions ==
    /\ pc = "fetch"
    /\ calls' = [calls EXCEPT !.fetchInputTransactions = @ + 1]
    /\ IF chain.fetchInputErr # NoError
       THEN Return(chain.fetchInputErr) /\ txInputStore' = txInputStore
       ELSE /\ txInputStore' = chain.store
            /\ pc' = IF Len(transactions) = 0 THEN "cap" ELSE "sigops"
            /\ err' = err
    /\ UNCHANGED <<elsewhere, inputs, first, args, result, i, j, totalSigOps, totalSatoshiIn, totalFees, fees,
                   sanityErr>>

\* Lines 747-750 with the activation time itself included.
enforceBIP0016FromActivation == node.timestamp >= Bip16Activation

\* Lines 747-750: time.After is strict.
enforceBIP0016 == node.timestamp > Bip16Activation

\* Lines 761-775: the signature operations of transaction k, or the error of
\* countP2SHSigOps.
NumSigOps(k) ==
    LET tx == transactions[k]
        p2sh == countP2SHSigOps(tx, k = 1, txInputStore)
    IN  IF enforceBIP0016
        THEN [n |-> I64Add(countSigOps(tx), p2sh.n), err |-> p2sh.err]
        ELSE [n |-> countSigOps(tx), err |-> NoError]

\* Lines 760-787 with the loop left after its first transaction.
SigOpPassFirstOnly ==
    /\ pc = "sigops"
    /\ LET r == NumSigOps(i)
           total == I64Add(totalSigOps, r.n)
       IN  IF r.err # NoError
           THEN Return(r.err) /\ UNCHANGED <<i, totalSigOps>>
           ELSE /\ totalSigOps' = total
                /\ IF ~SigOpsInRange(totalSigOps, total)
                   THEN Return(RuleError("block contains too many signature operations"))
                        /\ i' = i
                   ELSE err' = err /\ pc' = "inputs" /\ i' = 1
    /\ UNCHANGED <<elsewhere, inputs, first, args, result, j, txInputStore, totalSatoshiIn, totalFees, fees, calls,
                   sanityErr>>

\* Lines 760-787, one transaction of the loop.
SigOpPass ==
    /\ pc = "sigops"
    /\ LET r == NumSigOps(i)
           total == I64Add(totalSigOps, r.n)
       IN  IF r.err # NoError
           THEN Return(r.err) /\ UNCHANGED <<i, totalSigOps>>
           ELSE /\ totalSigOps' = total
                /\ IF ~SigOpsInRange(totalSigOps, total)
                   THEN Return(RuleError("block contains too many signature operations"))
                        /\ i' = i
                   ELSE /\ err' = err
                        /\ pc' = IF i < Len(transactions) THEN "sigops" ELSE "inputs"
                        /\ i' = IF i < Len(transactions) THEN i + 1 ELSE 1
    /\ UNCHANGED <<elsewhere, inputs, first, args, result, j, txInputStore, totalSatoshiIn, totalFees, fees, calls,
                   sanityErr>>

RECURSIVE SumValues(_, _)
\* The accumulation of lines 679-682 and 818-821 over a sequence of outputs.
SumValues(txOuts, acc) ==
    IF txOuts = << >> THEN acc
    ELSE SumValues(Tail(txOuts), I64Add(acc, Head(txOuts).Value))

\* Lines 613-616 with a coinbase of exactly coinbaseMaturity blocks before
\* taken as not yet mature.
ImmatureAtMaturity(txHeight, originTx) ==
    /\ isCoinBase(originTx.tx)
    /\ txHeight - originTx.blockHeight <= coinbaseMaturity

\* Lines 613-616: the prior transaction is a coinbase not yet mature.
Immature(txHeight, originTx) ==
    /\ isCoinBase(originTx.tx)
    /\ txHeight - originTx.blockHeight < coinbaseMaturity

\* Line 673 left out: the output is not marked.
MarkSpentForgotten(store, txInHash, originTxIndex) == store

\* Line 673 writing a fresh bitmap with the one bit set.
MarkSpentAlone(store, txInHash, originTxIndex) ==
    [store EXCEPT ![txInHash].spent =
        [k \in 1..Len(@) |-> k = ToInt(originTxIndex) + 1]]

\* Line 673 marking every output of the origin transaction.
MarkSpentWhole(store, txInHash, originTxIndex) ==
    [store EXCEPT ![txInHash].spent = [k \in 1..Len(@) |-> TRUE]]

\* Line 673: originTx.spent[originTxIndex] = true.
MarkSpent(store, txInHash, originTxIndex) ==
    [store EXCEPT ![txInHash].spent[ToInt(originTxIndex) + 1] = TRUE]

\* Lines 601-674, one input of the loop of checkTransactionInputs: the error
\* returned, or the store and the total after the input.
CheckInput(txIn, txHeight, store, totalIn) ==
    LET txInHash == txIn.PreviousOutpoint.Hash
        originTxIndex == txIn.PreviousOutpoint.Index
        fail(e) == [err |-> e, store |-> store, totalIn |-> totalIn]
    IN
    IF txInHash \notin DOMAIN store
    THEN fail(RuleError("unable to find input transaction"))
    ELSE
      LET originTx == store[txInHash] IN
      IF originTx.tx = NilTx
      THEN fail(Panic("nil pointer dereference"))
      ELSE IF Immature(txHeight, originTx)
      THEN fail(RuleError("tried to spend coinbase transaction before required maturity"))
      ELSE IF Le(BigOf(Len(originTx.spent)), originTxIndex)
      THEN fail(Errorf("out of bounds input index"))
      ELSE IF originTx.spent[ToInt(originTxIndex) + 1]
      THEN fail(RuleError("tried to double spend coins"))
      ELSE IF ToInt(originTxIndex) + 1 > Len(originTx.tx.TxOut)
      THEN fail(Panic("index out of range"))
      ELSE
        LET originTxSatoshi == originTx.tx.TxOut[ToInt(originTxIndex) + 1].Value
            total == I64Add(totalIn, originTxSatoshi)
        IN
        IF Lt(originTxSatoshi, Zero)
        THEN fail(RuleError("transaction output has negative value"))
        ELSE IF Lt(maxSatoshi, originTxSatoshi)
        THEN fail(RuleError("transaction output value is higher than max allowed value"))
        ELSE IF Lt(total, totalIn) \/ Lt(maxSatoshi, total)
        THEN fail(RuleError("total value of all transaction inputs is higher than max allowed value"))
        ELSE [err |-> NoError,
              store |-> MarkSpent(store, txInHash, originTxIndex),
              totalIn |-> total]

\* Lines 676-696 without the test of lines 684-689.
CheckOutputsUntested(tx, totalIn) ==
    [fee |-> I64Sub(totalIn, SumValues(tx.TxOut, Zero)), err |-> NoError]

\* Lines 676-696: the end of checkTransactionInputs.
CheckOutputs(tx, totalIn) ==
    LET totalSatoshiOut == SumValues(tx.TxOut, Zero) IN
    IF Lt(totalIn, totalSatoshiOut)
    THEN [fee |-> Zero,
          err |-> RuleError("total value of all transaction inputs is less than the amount spent")]
    ELSE [fee |-> I64Sub(totalIn, totalSatoshiOut), err |-> NoError]

\* Lines 798-810: what the loop of checkConnectBlock does with the return of
\* checkTransactionInputs.
Returned(txFee, e) ==
    IF e # NoError
    THEN Return(e) /\ UNCHANGED <<i, j, totalFees, fees, totalSatoshiIn>>
    ELSE /\ totalFees' = I64Add(totalFees, txFee)
         /\ fees' = Append(fees, txFee)
         /\ totalSatoshiIn' = Zero
         /\ j' = 1
         /\ IF Lt(I64Add(totalFees, txFee), totalFees)
            THEN Return(RuleError("total fees for block overflows accumulator"))
                 /\ i' = i
            ELSE /\ err' = err
                 /\ pc' = IF i < Len(transactions) THEN "inputs" ELSE "cap"
                 /\ i' = IF i < Len(transactions) THEN i + 1 ELSE i

\* Lines 797-811 with the store put back as it was fetched when
\* checkTransactionInputs fails.
InputPassRollingBack ==
    /\ pc = "inputs"
    /\ LET tx == transactions[i] IN
       IF j = 1 /\ isCoinBase(tx)
       THEN Returned(Zero, NoError) /\ txInputStore' = txInputStore
       ELSE IF j = 1 /\ tx.shaErr
       THEN Returned(Zero, Errorf("TxSha")) /\ txInputStore' = chain.store
       ELSE IF j <= Len(tx.TxIn)
       THEN LET r == CheckInput(tx.TxIn[j], node.height, txInputStore, totalSatoshiIn)
            IN  IF r.err # NoError
                THEN Returned(Zero, r.err) /\ txInputStore' = chain.store
                ELSE /\ txInputStore' = r.store
                     /\ totalSatoshiIn' = r.totalIn
                     /\ j' = j + 1
                     /\ UNCHANGED <<pc, err, i, totalFees, fees>>
       ELSE /\ Returned(CheckOutputs(tx, totalSatoshiIn).fee,
                        CheckOutputs(tx, totalSatoshiIn).err)
            /\ txInputStore' = IF CheckOutputs(tx, totalSatoshiIn).err # NoError
                               THEN chain.store ELSE txInputStore
    /\ UNCHANGED <<elsewhere, inputs, first, args, result, totalSigOps, calls, sanityErr>>

\* Lines 797-811 with checkTransactionInputs (lines 588-697) inlined: one step
\* is the entry of the call for transaction i together with its first input,
\* one later input, or the end of the call and its return.
InputPass ==
    /\ pc = "inputs"
    /\ LET tx == transactions[i] IN
       IF j = 1 /\ isCoinBase(tx)
       THEN Returned(Zero, NoError) /\ txInputStore' = txInputStore
       ELSE IF j = 1 /\ tx.shaErr
       THEN Returned(Zero, Errorf("TxSha")) /\ txInputStore' = txInputStore
       ELSE IF j <= Len(tx.TxIn)
       THEN LET r == CheckInput(tx.TxIn[j], node.height, txInputStore, totalSatoshiIn)
            IN  IF r.err # NoError
                THEN Returned(Zero, r.err) /\ txInputStore' = txInputStore
                ELSE /\ txInputStore' = r.store
                     /\ totalSatoshiIn' = r.totalIn
                     /\ j' = j + 1
                     /\ UNCHANGED <<pc, err, i, totalFees, fees>>
       ELSE /\ Returned(CheckOutputs(tx, totalSatoshiIn).fee,
                        CheckOutputs(tx, totalSatoshiIn).err)
            /\ txInputStore' = txInputStore
    /\ UNCHANGED <<elsewhere, inputs, first, args, result, totalSigOps, calls, sanityErr>>

\* Lines 818-828 with the comparison of line 824 made non-strict: a coinbase
\* paying exactly the subsidy and the fees is rejected.
CoinbaseCapClosed ==
    /\ pc = "cap"
    /\ IF Len(transactions) = 0
       THEN Return(Panic("index out of range"))
       ELSE LET totalSatoshiOut == SumValues(transactions[1].TxOut, Zero)
                expectedSatoshiOut == I64Add(calcBlockSubsidy(node.height), totalFees)
            IN  IF Le(expectedSatoshiOut, totalSatoshiOut)
                THEN Return(RuleError("coinbase transaction for block pays more than expected value"))
                ELSE pc' = "scripts" /\ err' = err
    /\ UNCHANGED <<elsewhere, inputs, first, args, result, i, j, txInputStore, totalSigOps, totalSatoshiIn,
                   totalFees, fees, calls, sanityErr>>

\* Lines 818-828.  transactions[0] of a block without transactions panics.
CoinbaseCap ==
    /\ pc = "cap"
    /\ IF Len(transactions) = 0
       THEN Return(Panic("index out of range"))
       ELSE LET totalSatoshiOut == SumValues(transactions[1].TxOut, Zero)
                expectedSatoshiOut == I64Add(calcBlockSubsidy(node.height), totalFees)
            IN  IF Lt(expectedSatoshiOut, totalSatoshiOut)
                THEN Return(RuleError("coinbase transaction for block pays more than expected value"))
                ELSE pc' = "scripts" /\ err' = err
    /\ UNCHANGED <<elsewhere, inputs, first, args, result, i, j, txInputStore, totalSigOps, totalSatoshiIn,
                   totalFees, fees, calls, sanityErr>>

\* A nil *Checkpoint.
NilCheckpoint == [isNil |-> TRUE]

\* Lines 836-840 with the node at the checkpoint's height taken as past it.
runScriptsAtCheckpoint ==
    IF chain.checkpoint # NilCheckpoint /\ node.height < chain.checkpoint.Height
    THEN FALSE
    ELSE ~noVerify

\* Lines 836-840.
runScripts ==
    IF chain.checkpoint # NilCheckpoint /\ node.height <= chain.checkpoint.Height
    THEN FALSE
    ELSE ~noVerify

\* Lines 836-853.
BlockScripts ==
    /\ pc = "scripts"
    /\ IF runScripts
       THEN /\ calls' = [calls EXCEPT !.checkBlockScripts = @ + 1]
            /\ Return(chain.scriptsErr)
       ELSE calls' = calls /\ Return(NoError)
    /\ UNCHANGED <<elsewhere, inputs, first, args, result, i, j, txInputStore, totalSigOps, totalSatoshiIn,
                   totalFees, fees, sanityErr>>

\* No call has returned yet.
NoRun == [ran |-> FALSE]

\* The caller calls checkConnectBlock again with the same node and block,
\* the chain answering as before: the locals of the new call are fresh, and
\* first keeps what the first call returned and left in its store.
Rerun ==
    /\ pc = "done"
    /\ first = NoRun
    /\ first' = [ran |-> TRUE, err |-> err, store |-> txInputStore, calls |-> calls,
                 sameStore |-> FALSE]
    /\ pc' = "start"
    /\ i' = 1 /\ j' = 1
    /\ txInputStore' = << >>
    /\ totalSigOps' = Zero /\ totalSatoshiIn' = Zero /\ totalFees' = Zero
    /\ fees' = << >>
    /\ err' = NoError
    /\ calls' = [checkBIP0030 |-> 0, fetchTxList |-> 0, fetchInputTransactions |-> 0,
                 checkBlockScripts |-> 0]
    /\ UNCHANGED <<elsewhere, inputs, sanityErr, args, result>>

\* The caller calls checkConnectBlock again with the same node and block,
\* and fetchInputTransactions answers with the very store, as the first call
\* left it, that it answered the first call with.
RerunOnSameStore ==
    /\ pc = "done"
    /\ first = NoRun
    /\ calls.fetchInputTransactions > 0
    /\ chain.fetchInputErr = NoError
    /\ first' = [ran |-> TRUE, err |-> err, store |-> txInputStore, calls |-> calls,
                 sameStore |-> TRUE]
    /\ chain' = [chain EXCEPT !.store = txInputStore]
    /\ pc' = "start"
    /\ i' = 1 /\ j' = 1
    /\ txInputStore' = << >>
    /\ totalSigOps' = Zero /\ totalSatoshiIn' = Zero /\ totalFees' = Zero
    /\ fees' = << >>
    /\ err' = NoError
    /\ calls' = [checkBIP0030 |-> 0, fetchTxList |-> 0, fetchInputTransactions |-> 0,
                 checkBlockScripts |-> 0]
    /\ UNCHANGED <<elsewhere, node, block, noVerify, sanityErr, args, result>>

(***************************************************************************)
(* The inputs.  Transactions, stores and chain answers are built from the  *)
(* values at which the code's tests change their outcome.                  *)
(***************************************************************************)
\* The most transactions a block holds after its coinbase.
MaxSpenders == 2

hashA == "aaaaaaaaaaaaaaaaaaaaaaaaaaaaaaaaaaaaaaaaaaaaaaaaaaaaaaaaaaaaaaaa"
hashB == "bbbbbbbbbbbbbbbbbbbbbbbbbbbbbbbbbbbbbbbbbbbbbbbbbbbbbbbbbbbbbbbb"
hashC == "cccccccccccccccccccccccccccccccccccccccccccccccccccccccccccccccc"
otherHash == "00000000000000000000000000000000000000000000000000000000deadbeef"

OutPoint(h, n) == [Hash |-> h, Index |-> BigOf(n)]
NullOutPoint == [Hash |-> zeroHash, Index |-> MaxUint32]
SigScript(len, n, r) == [len |-> len, sigOps |-> n, redeemSigOps |-> r]
PkScript(n, p) == [sigOps |-> n, p2sh |-> p]
In(op, script) == [PreviousOutpoint |-> op, SignatureScript |-> script,
                   Sequence |-> MaxUint32]
Out(v, script) == [Value |-> v, PkScript |-> script]
PlainIn(op) == In(op, SigScript(2, Zero, Zero))
PlainOut(v) == Out(v, PkScript(Zero, FALSE))
Tx(sha, ins, outs) == [sha |-> sha, shaErr |-> FALSE, TxIn |-> ins, TxOut |-> outs,
                       LockTime |-> Zero]
Coinbase(sha, outs) == Tx(sha, <<PlainIn(NullOutPoint)>>, outs)
Sat(n) == BigOf(n)

\* A block of the transactions txs whose header commits to them.
Block(txs, time) ==
    [header |-> [target |-> 1, Timestamp |-> time,
                 MerkleRoot |-> [k \in 1..Len(txs) |-> txs[k].sha]],
     hashNum |-> 1, shaErr |-> NoError, Transactions |-> txs]

Node(height, hash, time) == [height |-> height, hash |-> hash, timestamp |-> time]

\* A store entry, and the results of fetchTxList.
Entry(tx, height, spent) == [tx |-> tx, blockHeight |-> height, spent |-> spent,
                             err |-> NoError]
MissingEntry == [tx |-> NilTx, blockHeight |-> 0, spent |-> << >>, err |-> TxShaMissing]
FailedEntry == [tx |-> NilTx, blockHeight |-> 0, spent |-> << >>,
                err |-> Errorf("database failure")]

PriorTx(outs) == Tx("prior", <<PlainIn(OutPoint(hashC, 0))>>, outs)
PriorCoinbase(outs) == Coinbase("prior coinbase", outs)

Answers(txResults, store, checkpoint, scriptsErr) ==
    [fetchTxListErr |-> NoError, txResults |-> txResults, fetchInputErr |-> NoError,
     store |-> store, checkpoint |-> checkpoint, scriptsErr |-> scriptsErr,
     powLimit |-> 2, now |-> Bip16Activation + 86400]

Scenario(n, blk, nv, ch) == [node |-> n, block |-> blk, noVerify |-> nv, chain |-> ch]

SeqsUpTo(S, n) == UNION {[1..m -> S] : m \in 0..n}

NoResults(txs) == [k \in 1..Len(txs) |-> MissingEntry]

\* The usual node: not genesis, not grandfathered, BIP16 not yet enforced.
BaseHeight == 91842 + 1
BaseNode == Node(BaseHeight, otherHash, Bip16Activation)

\* hashA pays 300 and 200 satoshi, hashB 50.
EntryA == Entry(PriorTx(<<PlainOut(Sat(300)), PlainOut(Sat(200))>>), 1000, <<FALSE, FALSE>>)
EntryB == Entry(PriorTx(<<PlainOut(Sat(50))>>), 1000, <<FALSE>>)
BaseStore == (hashA :> EntryA) @@ (hashB :> EntryB)

\* Spending transactions: fee 100, fee 0, two inputs (fee 100), the same
\* outpoint twice, more out than in, an input absent from the store, an
\* index past the outputs.
Spenders ==
    { Tx("s1", <<PlainIn(OutPoint(hashA, 0))>>, <<PlainOut(Sat(200))>>),
      Tx("s2", <<PlainIn(OutPoint(hashA, 1))>>, <<PlainOut(Sat(200))>>),
      Tx("s3", <<PlainIn(OutPoint(hashA, 0)), PlainIn(OutPoint(hashA, 1))>>,
               <<PlainOut(Sat(400))>>),
      Tx("s4", <<PlainIn(OutPoint(hashA, 0)), PlainIn(OutPoint(hashA, 0))>>,
               <<PlainOut(Sat(100))>>),
      Tx("s5", <<PlainIn(OutPoint(hashB, 0))>>, <<PlainOut(Sat(51))>>),
      Tx("s6", <<PlainIn(OutPoint(hashC, 0))>>, <<PlainOut(Sat(1))>>),
      Tx("s7", <<PlainIn(OutPoint(hashA, 2))>>, <<PlainOut(Sat(1))>>) }

\* The outputs of the coinbase: around the subsidy of the height plus the
\* fees a block of Spenders can pay (0, 100 or 200), and values whose sum
\* leaves int64.
Around(subsidy) ==
    { <<PlainOut(Add(subsidy, Sat(d)))>> : d \in {0, 1, 100, 101, 200, 201} }
        \cup { <<PlainOut(subsidy), PlainOut(Sat(100))>>,
               <<PlainOut(subsidy), PlainOut(Sat(101))>>,
               <<PlainOut(MaxInt64), PlainOut(MaxInt64)>>,
               <<PlainOut(MaxInt64), PlainOut(Sat(1))>> }

\* Entries of hashA: a coinbase 100 and 99 blocks below BaseHeight, another
\* transaction 99 blocks below, an output already spent, the transaction
\* missing, fewer outputs than spent bits, values out of range, values whose
\* sum is out of range.
EntriesA ==
    { EntryA,
      Entry(PriorCoinbase(EntryA.tx.TxOut), BaseHeight - coinbaseMaturity, <<FALSE, FALSE>>),
      Entry(PriorCoinbase(EntryA.tx.TxOut), BaseHeight - coinbaseMaturity + 1, <<FALSE, FALSE>>),
      Entry(EntryA.tx, BaseHeight - coinbaseMaturity + 1, <<FALSE, FALSE>>),
      Entry(EntryA.tx, 1000, <<TRUE, FALSE>>),
      MissingEntry,
      Entry(PriorTx(<<PlainOut(Sat(300))>>), 1000, <<FALSE, FALSE>>),
      Entry(PriorTx(<<PlainOut(Sat(-1)), PlainOut(Sat(200))>>), 1000, <<FALSE, FALSE>>),
      Entry(PriorTx(<<PlainOut(Add(maxSatoshi, Sat(1))), PlainOut(Sat(200))>>), 1000,
            <<FALSE, FALSE>>),
      Entry(PriorTx(<<PlainOut(maxSatoshi), PlainOut(maxSatoshi)>>), 1000, <<FALSE, FALSE>>) }

NoArgs == [fn |-> "none"]

Pending == [returned |-> FALSE]

\* The variables of checkConnectBlock before the call for the inputs of
\* scenario sc, at position p.
Locals(sc, p) ==
    /\ node = sc.node
    /\ block = sc.block
    /\ noVerify = sc.noVerify
    /\ chain = sc.chain
    /\ pc = p
    /\ i = 1
    /\ j = 1
    /\ txInputStore = << >>
    /\ totalSigOps = Zero
    /\ totalSatoshiIn = Zero
    /\ totalFees = Zero
    /\ fees = << >>
    /\ err = NoError
    /\ calls = [checkBIP0030 |-> 0, fetchTxList |-> 0, fetchInputTransactions |-> 0,
                checkBlockScripts |-> 0]
    /\ sanityErr = Unchecked
    /\ first = NoRun

\* The state at the call for the inputs of scenario sc.
Start(sc) == Locals(sc, "sanity") /\ args = NoArgs /\ result = Pending /\ AtRest

MatureCoinbaseA ==
    Entry(PriorCoinbase(EntryA.tx.TxOut), BaseHeight - coinbaseMaturity, <<FALSE, FALSE>>)

\* Blocks of a coinbase and spenders, on the usual node: every coinbase on
\* two stores, every store with two coinbases, and the halved subsidy.
FamInputs ==
    \/ \E cb \in Around(baseSubsidy), ea \in {EntryA, MatureCoinbaseA},
          sp \in SeqsUpTo(Spenders, MaxSpenders) :
         Start(Scenario(BaseNode,
                        Block(<<Coinbase("c1", cb)>> \o sp, Bip16Activation),
                        TRUE,
                        Answers(NoResults(<<1>> \o sp),
                                (hashA :> ea) @@ (hashB :> EntryB),
                                NilCheckpoint, NoError)))
    \/ \E cb \in {<<PlainOut(baseSubsidy)>>, <<PlainOut(Add(baseSubsidy, Sat(100)))>>},
          ea \in EntriesA, sp \in SeqsUpTo(Spenders, MaxSpenders) :
         Start(Scenario(BaseNode,
                        Block(<<Coinbase("c1", cb)>> \o sp, Bip16Activation),
                        TRUE,
                        Answers(NoResults(<<1>> \o sp),
                                (hashA :> ea) @@ (hashB :> EntryB),
                                NilCheckpoint, NoError)))
    \/ \E cb \in Around(Half(baseSubsidy)), sp \in SeqsUpTo(Spenders, MaxSpenders) :
         Start(Scenario(Node(subsidyHalvingInterval, otherHash, Bip16Activation),
                        Block(<<Coinbase("c1", cb)>> \o sp, Bip16Activation),
                        TRUE,
                        Answers(NoResults(<<1>> \o sp), BaseStore, NilCheckpoint,
                                NoError)))

\* What fetchTxList finds for a hash: nothing, a transaction fully spent, one
\* with an unspent output, a failure.
TxResults ==
    { MissingEntry,
      Entry(EntryA.tx, 500, <<TRUE, TRUE>>),
      Entry(EntryA.tx, 500, <<TRUE, FALSE>>),
      FailedEntry }

ShaFails(tx) == [tx EXCEPT !.shaErr = TRUE]

\* Blocks for the gates: a coinbase and a spender, a lone coinbase, no
\* transactions, no coinbase, and transactions whose hash cannot be computed.
GateBlocks ==
    { <<Coinbase("c1", <<PlainOut(baseSubsidy)>>),
        Tx("s1", <<PlainIn(OutPoint(hashA, 0))>>, <<PlainOut(Sat(200))>>)>>,
      <<Coinbase("c1", <<PlainOut(baseSubsidy)>>)>>,
      << >>,
      <<Tx("s1", <<PlainIn(OutPoint(hashA, 0))>>, <<PlainOut(Sat(200))>>)>>,
      <<ShaFails(Coinbase("c1", <<PlainOut(baseSubsidy)>>))>>,
      <<Coinbase("c1", <<PlainOut(baseSubsidy)>>),
        ShaFails(Tx("s1", <<PlainIn(OutPoint(hashA, 0))>>, <<PlainOut(Sat(200))>>))>> }

GateNodes ==
    { Node(h, hash, Bip16Activation) :
        h \in {91842, 91880, BaseHeight},
        hash \in {GenesisHash, block91842Hash, block91880Hash, otherHash} }

\* Every node with every answer of fetchTxList, and the two fetches failing.
FamGates ==
    \/ \E n \in GateNodes, txs \in GateBlocks :
         \E res \in [1..Len(txs) -> TxResults] :
            Start(Scenario(n, Block(txs, Bip16Activation), TRUE,
                           Answers(res, BaseStore, NilCheckpoint, NoError)))
    \/ \E n \in GateNodes, txs \in GateBlocks,
          e \in {<<Errorf("fetchTxList"), NoError>>,
                 <<NoError, Errorf("fetchInputTransactions")>>} :
         Start(Scenario(n, Block(txs, Bip16Activation), TRUE,
                        [Answers(NoResults(txs), BaseStore, NilCheckpoint, NoError)
                            EXCEPT !.fetchTxListErr = e[1], !.fetchInputErr = e[2]]))

\* The script gate: the checkpoint below, at and above the node, or none.
FamScripts ==
    \E cb \in {<<PlainOut(baseSubsidy)>>, <<PlainOut(Add(baseSubsidy, Sat(1)))>>},
       sp \in SeqsUpTo({Tx("s1", <<PlainIn(OutPoint(hashA, 0))>>, <<PlainOut(Sat(200))>>)}, 1),
       nv \in BOOLEAN,
       cp \in {NilCheckpoint} \cup
              {[isNil |-> FALSE, Height |-> BaseHeight + d] : d \in {-1, 0, 1}},
       e \in {NoError, Errorf("script verification failed")} :
      Start(Scenario(BaseNode, Block(<<Coinbase("c1", cb)>> \o sp, Bip16Activation), nv,
                     Answers(NoResults(<<1>> \o sp), BaseStore, cp, e)))

\* Spenders by their signature operations: the input's script counts n with
\* GetSigOpCount and r with GetPreciseSigOpCount, the output's script counts m.
SigSpender(sha, index, n, r, m) ==
    Tx(sha, <<In(OutPoint(hashA, index), SigScript(2, n, r))>>,
       <<Out(Sat(1), PkScript(m, FALSE))>>)

SigSpenders ==
    { SigSpender("g1", 0, Zero, Zero, Zero),
      SigSpender("g2", 1, Sat(1), Zero, Zero),
      SigSpender("g3", 1, Zero, Sat(1), Zero),
      SigSpender("g4", 0, Zero, Sat(maxSigOpsPerBlock), Zero),
      SigSpender("g5", 1, Zero, Sat(maxSigOpsPerBlock + 1), Zero),
      SigSpender("g6", 0, MaxInt64, Zero, Zero),
      SigSpender("g7", 1, Zero, MaxInt64, Zero),
      SigSpender("g8", 0, MaxInt64, Zero, Sat(1)) }

\* The sig-op pass: around the BIP16 activation, the coinbase output's script
\* counting up to one past the cap, hashA paying to a script hash or not.
FamSigOps ==
    \E d \in {-1, 0, 1}, m \in {0, 1, maxSigOpsPerBlock, maxSigOpsPerBlock + 1},
       p \in BOOLEAN, sp \in SeqsUpTo(SigSpenders, MaxSpenders) :
      Start(Scenario(Node(BaseHeight, otherHash, Bip16Activation + d),
                     Block(<<Coinbase("c1", <<Out(baseSubsidy, PkScript(Sat(m), FALSE))>>)>>
                               \o sp,
                           Bip16Activation + d),
                     TRUE,
                     Answers(NoResults(<<1>> \o sp),
                             (hashA :> Entry(PriorTx(<<Out(Sat(300), PkScript(Zero, p)),
                                                       Out(Sat(200), PkScript(Zero, p))>>),
                                             1000, <<FALSE, FALSE>>)),
                             NilCheckpoint, NoError)))

\* Spenders on which countP2SHSigOps fails, after one on which it succeeds:
\* an output index past the outputs of the origin, an origin missing from
\* the store, a transaction whose hash cannot be computed, and redeem
\* scripts whose counts wrap the total around.
SigOpFailers ==
    { SigSpender("g1", 0, Zero, Zero, Zero),
      SigSpender("e1", 2, Zero, Zero, Zero),
      Tx("e2", <<PlainIn(OutPoint(hashB, 0))>>, <<PlainOut(Sat(1))>>),
      ShaFails(SigSpender("e3", 1, Zero, Zero, Zero)),
      Tx("e4", <<In(OutPoint(hashA, 0), SigScript(2, Zero, MaxInt64)),
                 In(OutPoint(hashA, 1), SigScript(2, Zero, Sat(1)))>>,
         <<PlainOut(Sat(1))>>) }

\* The errors of countP2SHSigOps: at the BIP16 activation and after it,
\* hashA paying to a script hash or not.
FamSigOpErrors ==
    \E d \in {0, 1}, p \in BOOLEAN, sp \in SeqsUpTo(SigOpFailers, MaxSpenders) :
      Start(Scenario(Node(BaseHeight, otherHash, Bip16Activation + d),
                     Block(<<Coinbase("c1", <<PlainOut(baseSubsidy)>>)>> \o sp,
                           Bip16Activation + d),
                     TRUE,
                     Answers(NoResults(<<1>> \o sp),
                             (hashA :> Entry(PriorTx(<<Out(Sat(300), PkScript(Zero, p)),
                                                       Out(Sat(200), PkScript(Zero, p))>>),
                                             1000, <<FALSE, FALSE>>)),
                             NilCheckpoint, NoError)))

\* The most outputs of a transaction built for the sanity checks.
MaxOutputs == 2

\* Output values around the ends of the legal range and of int64.
SanityValues ==
    { Sat(-1), Zero, Sat(1), Sub(maxSatoshi, Sat(1)), maxSatoshi,
      Add(maxSatoshi, Sat(1)), MaxInt64 }

\* The sanity checks: a coinbase and a transaction of any such outputs.
FamSanity ==
    \E outs \in SeqsUpTo({PlainOut(v) : v \in SanityValues}, MaxOutputs) :
      Start(Scenario(BaseNode,
                     Block(<<Coinbase("c1", <<PlainOut(baseSubsidy)>>),
                             Tx("t1", <<PlainIn(OutPoint(hashA, 0))>>, outs)>>,
                           Bip16Activation),
                     TRUE,
                     Answers(<<MissingEntry, MissingEntry>>,
                             (hashA :> Entry(PriorTx(<<PlainOut(maxSatoshi)>>), 1000,
                                             <<FALSE>>)),
                             NilCheckpoint, NoError)))

\* Transaction lists for checkBlockSanity: well formed, with a second
\* coinbase, without a coinbase in front, empty, with a hash twice.
SanityBlocks ==
    LET c1 == Coinbase("c1", <<PlainOut(baseSubsidy)>>)
        c2 == Coinbase("c2", <<PlainOut(baseSubsidy)>>)
        s1 == Tx("s1", <<PlainIn(OutPoint(hashA, 0))>>, <<PlainOut(Sat(200))>>)
        s2 == Tx("s2", <<PlainIn(OutPoint(hashA, 1))>>, <<PlainOut(Sat(200))>>)
    IN  { <<c1>>, <<c1, s1>>, <<c1, s1, s2>>, <<c1, c2>>, <<c1, s1, c2>>, <<s1, c1>>,
          <<s1>>, << >>, <<c1, s1, s1>>, <<c1, s1, [s2 EXCEPT !.sha = "s1"]>>,
          <<c1, c1>> }

\* checkBlockSanity: the transaction lists under headers whose merkle root
\* is or is not theirs, whose time is at or past two hours from now, and
\* whose target and hash are around their limits.
FamBlocks ==
    \E txs \in SanityBlocks, root \in BOOLEAN, late \in {0, 1},
       target \in {0, 1, 2, 3}, over \in {0, 1} :
      Start(Scenario(BaseNode,
                     [Block(txs, Bip16Activation + 86400 + 7200 + late)
                        EXCEPT !.header.MerkleRoot = IF root THEN @ ELSE <<"c1", "s2">>,
                               !.header.target = target,
                               !.hashNum = target + over],
                     TRUE,
                     Answers(NoResults(txs), BaseStore, NilCheckpoint, NoError)))

Init ==
    \/ FamInputs \/ FamGates \/ FamScripts \/ FamSigOps \/ FamSigOpErrors
    \/ FamSanity \/ FamBlocks

Next ==
    \/ BlockSanity
    \/ GenesisCheck
    \/ BIP0030
    \/ FetchInputTransactions
    \/ SigOpPass
    \/ InputPass
    \/ CoinbaseCap
    \/ BlockScripts
    \/ Rerun
    \/ RerunOnSameStore

Spec == Init /\ [][Next]_vars

(***************************************************************************)
(* The functions of the package called on their own: args names the        *)
(* function and holds its arguments, result its return value.              *)
(***************************************************************************)
\* The halvings the heights go up to: past the width of int64.
MaxHalvings == 65

\* Heights at, just below and just above every halving.
SubsidyHeights ==
    { k * subsidyHalvingInterval + d : k \in 0..MaxHalvings, d \in {-1, 0, 1} }
        \ {-1}

\* No checkConnectBlock call is under way.
Idle ==
    Locals(Scenario(BaseNode, Block(<< >>, Bip16Activation), TRUE,
                    Answers(<< >>, BaseStore, NilCheckpoint, NoError)),
           "idle")

Returns(v) == result' = [returned |-> TRUE, value |-> v]

\* Lines 171-174.
CalcBlockSubsidy ==
    /\ args.fn = "calcBlockSubsidy"
    /\ result = Pending
    /\ Returns(calcBlockSubsidy(args.height))
    /\ UNCHANGED <<elsewhere, inputs, pc, i, j, txInputStore, totalSigOps, totalSatoshiIn,
                   totalFees, fees, err, calls, sanityErr, first, args>>

\* Lines 114-144.
IsFinalizedTransaction ==
    /\ args.fn = "isFinalizedTransaction"
    /\ result = Pending
    /\ Returns(isFinalizedTransaction(args.msgTx, args.blockHeight, args.blockTime))
    /\ UNCHANGED <<elsewhere, inputs, pc, i, j, txInputStore, totalSigOps, totalSatoshiIn,
                   totalFees, fees, err, calls, sanityErr, first, args>>

\* Lines 498-519.
CheckSerializedHeight ==
    /\ args.fn = "checkSerializedHeight"
    /\ result = Pending
    /\ Returns(checkSerializedHeight(args.coinbaseTx, args.wantHeight))
    /\ UNCHANGED <<elsewhere, inputs, pc, i, j, txInputStore, totalSigOps, totalSatoshiIn,
                   totalFees, fees, err, calls, sanityErr, first, args>>

\* The longest signature script of a coinbase passed to
\* checkSerializedHeight.
MaxScriptLen == 5

\* Script bytes: zero, one, the opcode pushing three bytes, the greatest.
ScriptBytes == {0, 1, 3, 255}

\* Heights of one, two, three and four bytes.
WantHeights ==
    { 0, 1, 3, 255, 256, 65536 + 3 * 256 + 1, 16777215, 16777216, 16777217 }

\* A coinbase whose signature script is the bytes.
CoinbaseWithScript(bytes) ==
    [Coinbase("c1", <<PlainOut(baseSubsidy)>>)
        EXCEPT !.TxIn[1].SignatureScript =
                  [len |-> Len(bytes), bytes |-> bytes, sigOps |-> Zero,
                   redeemSigOps |-> Zero]]

\* Lines 178-265.
CheckTransactionSanity ==
    /\ args.fn = "checkTransactionSanity"
    /\ result = Pending
    /\ Returns(checkTransactionSanity(args.tx))
    /\ UNCHANGED <<elsewhere, inputs, pc, i, j, txInputStore, totalSigOps, totalSatoshiIn,
                   totalFees, fees, err, calls, sanityErr, first, args>>

\* The most outputs of a transaction passed to checkTransactionSanity.
MaxTxOutputs == 3

\* Output values around the ends of the legal range and of int64.
TxOutputValues == { Sat(-1), Zero, Sat(1), maxSatoshi, Add(maxSatoshi, Sat(1)), MaxInt64 }

\* Inputs of a transaction: none, those of a coinbase with a script at and
\* around the ends of the legal lengths, one outpoint, two different ones,
\* one twice, a null outpoint after another and the null outpoint twice.
TxInputLists ==
    { << >>,
      <<PlainIn(OutPoint(hashA, 0))>>,
      <<PlainIn(OutPoint(hashA, 0)), PlainIn(OutPoint(hashA, 1))>>,
      <<PlainIn(OutPoint(hashA, 0)), PlainIn(OutPoint(hashA, 0))>>,
      <<PlainIn(OutPoint(hashA, 0)), PlainIn(NullOutPoint)>>,
      <<PlainIn(NullOutPoint), PlainIn(NullOutPoint)>> }
    \cup { <<In(NullOutPoint, SigScript(len, Zero, Zero))>> :
             len \in { minCoinbaseScriptLen - 1, minCoinbaseScriptLen,
                       maxCoinbaseScriptLen, maxCoinbaseScriptLen + 1 } }

\* Outpoints whose keys share digits: one hash with the indexes 0, 1, 11,
\* 10^8 and the greatest, another hash with 0 and 1, and the null outpoint.
KeyOutpoints ==
    { OutPoint(hashA, 0), OutPoint(hashA, 1), OutPoint(hashA, 11),
      OutPoint(hashA, Limb), [Hash |-> hashA, Index |-> MaxUint32],
      OutPoint(hashB, 0), OutPoint(hashB, 1), NullOutPoint }

\* Lines 330-390.
CountP2SHSigOps ==
    /\ args.fn = "countP2SHSigOps"
    /\ result = Pending
    /\ Returns(countP2SHSigOps(args.msgTx, args.isCoinBaseTx, args.txStore))
    /\ UNCHANGED <<elsewhere, inputs, pc, i, j, txInputStore, totalSigOps, totalSatoshiIn,
                   totalFees, fees, err, calls, sanityErr, first, args>>

\* Inputs by what they refer to and by the precise count of their script:
\* the outputs 0 and 1 of hashA, an index past its outputs, hashB, and a
\* count that wraps the total around after any other.
P2SHInputs ==
    { In(OutPoint(hashA, 0), SigScript(2, Zero, Sat(1))),
      In(OutPoint(hashA, 1), SigScript(2, Zero, Sat(2))),
      In(OutPoint(hashA, 2), SigScript(2, Zero, Sat(4))),
      In(OutPoint(hashB, 0), SigScript(2, Zero, Sat(8))),
      In(OutPoint(hashA, 0), SigScript(2, Zero, MaxInt64)) }

\* The entry of hashA whose outputs pay to a script hash as p and q say.
P2SHEntry(p, q) ==
    Entry(PriorTx(<<Out(Sat(300), PkScript(Zero, p)),
                    Out(Sat(200), PkScript(Zero, q))>>), 1000, <<FALSE, FALSE>>)

\* Stores: hashA alone with outputs of either kind, hashA with a fetch
\* error beside its transaction, without a transaction, with neither, and
\* hashB beside hashA.
P2SHStores ==
    { (hashA :> P2SHEntry(p, q)) : p, q \in BOOLEAN }
    \cup { (hashA :> [P2SHEntry(TRUE, TRUE) EXCEPT !.err = Errorf("database failure")]),
           (hashA :> [MissingEntry EXCEPT !.err = NoError]),
           (hashA :> MissingEntry),
           (hashA :> P2SHEntry(TRUE, FALSE)) @@ (hashB :> P2SHEntry(TRUE, TRUE)) }

\* The most inputs of a transaction passed to a function on its own.
MaxInputs == 2

\* Lock times, heights and times around 0, each other and lockTimeThreshold.
LockTimes ==
    { Zero, BigOf(1), BigOf(lockTimeThreshold - 1), BigOf(lockTimeThreshold),
      BigOf(lockTimeThreshold + 1), MaxUint32 }

BlockHeights ==
    { BigOf(1), BigOf(2), BigOf(lockTimeThreshold - 1), BigOf(lockTimeThreshold),
      BigOf(lockTimeThreshold + 1) }

BlockTimes ==
    { BigOf(1), BigOf(lockTimeThreshold), BigOf(lockTimeThreshold + 1),
      Add(MaxUint32, BigOf(1)) }

InputSequences == { MaxUint32, Sub(MaxUint32, BigOf(1)), Zero }

InitFunctions ==
    /\ Idle
    /\ AtRest
    /\ result = Pending
    /\ \/ \E h \in SubsidyHeights : args = [fn |-> "calcBlockSubsidy", height |-> h]
       \/ \E lt \in LockTimes, h \in BlockHeights, t \in BlockTimes,
             seqs \in SeqsUpTo(InputSequences, MaxInputs) :
            args = [fn |-> "isFinalizedTransaction",
                    msgTx |-> [Tx("t1",
                                  [k \in 1..Len(seqs) |->
                                      [PlainIn(OutPoint(hashA, k - 1))
                                          EXCEPT !.Sequence = seqs[k]]],
                                  <<PlainOut(BigOf(1))>>)
                                 EXCEPT !.LockTime = lt],
                    blockHeight |-> h, blockTime |-> t]
       \/ \E bytes \in SeqsUpTo(ScriptBytes, MaxScriptLen), h \in WantHeights :
            args = [fn |-> "checkSerializedHeight",
                    coinbaseTx |-> CoinbaseWithScript(bytes), wantHeight |-> h]
       \/ \E ins \in TxInputLists,
             outs \in SeqsUpTo({PlainOut(v) : v \in TxOutputValues}, MaxTxOutputs) :
            args = [fn |-> "checkTransactionSanity", tx |-> Tx("t1", ins, outs)]
       \/ \E ins \in SeqsUpTo(P2SHInputs, MaxInputs), flag, fails \in BOOLEAN,
             store \in P2SHStores :
            args = [fn |-> "countP2SHSigOps",
                    msgTx |-> [Tx("t3", ins, <<PlainOut(Sat(1))>>) EXCEPT !.shaErr = fails],
                    isCoinBaseTx |-> flag, txStore |-> store]
       \/ \E ops \in SeqsUpTo(KeyOutpoints, MaxInputs) :
            args = [fn |-> "checkTransactionSanity",
                    tx |-> Tx("t2", [k \in 1..Len(ops) |-> PlainIn(ops[k])],
                              <<PlainOut(Sat(1))>>)]

NextFunctions ==
    \/ CalcBlockSubsidy
    \/ IsFinalizedTransaction
    \/ CheckSerializedHeight
    \/ CheckTransactionSanity
    \/ CountP2SHSigOps

SpecFunctions == InitFunctions /\ [][NextFunctions]_vars

-----------------------------------------------------------------------------
(* Properties of checkConnectBlock.                                        *)

Accepted == pc = "done" /\ err = NoError

NonGenesis == node.hash # GenesisHash

RECURSIVE ExactSum(_)
\* The mathematical sum of a sequence of amounts, without any wrap.
ExactSum(vs) == IF vs = << >> THEN Zero ELSE Add(Head(vs), ExactSum(Tail(vs)))

OutputValues(tx) == [k \in 1..Len(tx.TxOut) |-> tx.TxOut[k].Value]

\* The sum of the fees checkTransactionInputs returned for the block's
\* transactions.
ReturnedFees == ExactSum(fees)

CoinbasePays == ExactSum(OutputValues(transactions[1]))

CoinbaseMayPay == Add(calcBlockSubsidy(node.height), ReturnedFees)

CapError == RuleError("coinbase transaction for block pays more than expected value")

\* C1 as stated: whenever checkConnectBlock accepts a block for a node other
\* than the genesis node, the outputs of the block's first transaction sum to
\* at most calcBlockSubsidy(node.height) plus the fees of the block's
\* transactions.
C1_AcceptedCoinbaseWithinCap ==
    (Accepted /\ NonGenesis) => Le(CoinbasePays, CoinbaseMayPay)

\* C1, for blocks that passed checkBlockSanity: past the coinbase check the
\* outputs of the first transaction sum to at most the subsidy plus the fees,
\* so a coinbase paying exactly that much is let through, and a block is
\* rejected by the coinbase check only when they sum to more.
C1_SaneCoinbaseWithinCap ==
    sanityErr = NoError =>
        /\ (pc = "scripts" \/ (Accepted /\ NonGenesis))
               => Le(CoinbasePays, CoinbaseMayPay)
        /\ (pc = "done" /\ err = CapError) => Lt(CoinbaseMayPay, CoinbasePays)

\* A sane block with fees whose coinbase pays exactly the subsidy and the
\* fees has passed the coinbase check.
C1_Witness ==
    /\ sanityErr = NoError
    /\ pc = "scripts"
    /\ Lt(Zero, ReturnedFees)
    /\ CoinbasePays = CoinbaseMayPay

\* What fetchTxList answers for transaction k of the block says that an
\* earlier transaction of the same hash has an output not marked spent.
DuplicatesUnspent(k) ==
    /\ chain.txResults[k].err = NoError
    /\ ~isTransactionSpent(chain.txResults[k])

\* C2: whenever checkConnectBlock accepts a block for a node other than the
\* genesis node and the two grandfathered nodes, no transaction of the block
\* has the hash of an earlier transaction with an output not marked spent.
C2_AcceptedOverwritesNothing ==
    (Accepted /\ NonGenesis /\ ~isBIP0030Node(node))
        => \A k \in 1..Len(transactions) : ~DuplicatesUnspent(k)

DoubleSpendError == RuleError("tried to double spend coins")

\* The input pass is about to check input j of transaction i.
AtInput ==
    /\ pc = "inputs"
    /\ ~(j = 1 /\ (isCoinBase(transactions[i]) \/ transactions[i].shaErr))
    /\ j <= Len(transactions[i].TxIn)

\* Transaction k of the block is not a coinbase and has an input referring
\* to the outpoint.
Refers(k, outpoint) ==
    /\ ~isCoinBase(transactions[k])
    /\ \E m \in 1..Len(transactions[k].TxIn) :
           transactions[k].TxIn[m].PreviousOutpoint = outpoint

\* C3: when the input pass comes to an input whose outpoint an input of an
\* earlier transaction of the block refers to, it rejects the block there
\* with the double-spend rule error; so no accepted block has two
\* transactions with inputs referring to one outpoint.
C3_DoubleSpendAcrossTransactions ==
    /\ [][(AtInput /\ \E k \in 1..(i - 1) :
                         Refers(k, transactions[i].TxIn[j].PreviousOutpoint))
            => (pc' = "done" /\ err' = DoubleSpendError /\ i' = i /\ j' = j)]_vars
    /\ []((Accepted /\ NonGenesis)
            => \A k1, k2 \in 1..Len(transactions) :
                 \A m \in 1..Len(transactions[k1].TxIn) :
                    (k1 < k2 /\ Refers(k1, transactions[k1].TxIn[m].PreviousOutpoint))
                       => ~Refers(k2, transactions[k1].TxIn[m].PreviousOutpoint))

\* The block was rejected with the double-spend rule error at an input of
\* its third transaction, which the second transaction spent before it.
C3_Witness ==
    /\ pc = "done"
    /\ err = DoubleSpendError
    /\ i = 3
    /\ Refers(2, transactions[3].TxIn[j].PreviousOutpoint)

NoCalls ==
    [checkBIP0030 |-> 0, fetchTxList |-> 0, fetchInputTransactions |-> 0,
     checkBlockScripts |-> 0]

\* C4: for the genesis node checkConnectBlock returns success whatever the
\* block holds, having called no collaborator and fetched and marked no
\* transaction store.
C4_GenesisUnchecked ==
    (node.hash = GenesisHash /\ pc \notin {"sanity", "start"})
        => /\ Accepted
           /\ calls = NoCalls
           /\ txInputStore = << >>
           /\ totalSigOps = Zero /\ fees = << >>

\* checkConnectBlock returned success for the genesis node on a block
\* without a coinbase whose hash an unspent earlier transaction has.
C4_Witness ==
    /\ node.hash = GenesisHash
    /\ Accepted
    /\ Len(transactions) > 0 /\ ~isCoinBase(transactions[1])
    /\ DuplicatesUnspent(1)

\* One of the two nodes named by height and hash together.
Grandfathered ==
    \/ node.height = 91842 /\ node.hash = block91842Hash
    \/ node.height = 91880 /\ node.hash = block91880Hash

\* C5: past the duplicate check of a node other than the genesis node,
\* checkBIP0030 was not run exactly when the node is one of the two
\* grandfathered nodes, height and hash together; for any other node a block
\* with the hash of an earlier transaction with an output not marked spent
\* is rejected before its input transactions are fetched.
C5_GrandfatheredExactly ==
    (NonGenesis /\ pc \notin {"sanity", "start", "bip30"})
        => /\ (calls.checkBIP0030 = 0) <=> Grandfathered
           /\ (~Grandfathered /\ \E k \in 1..Len(transactions) : DuplicatesUnspent(k))
                 => (pc = "done" /\ err # NoError /\ calls.fetchInputTransactions = 0)

\* The signature operations the sig-op pass is to count for transaction k:
\* the pay-to-script-hash ones only for a node later than the activation.
SigOpsToCount(k) ==
    IF node.timestamp > Bip16Activation
    THEN I64Add(countSigOps(transactions[k]),
                countP2SHSigOps(transactions[k], k = 1, chain.store).n)
    ELSE countSigOps(transactions[k])

SigOpsCountedTo(n) == ExactSum([k \in 1..n |-> SigOpsToCount(k)])

AfterSigOpPass == pc \in {"inputs", "cap", "scripts"}

\* C6: the total of the sig-op pass is the sum over the transactions passed
\* of their signature operations, the precise pay-to-script-hash count
\* included exactly when node.timestamp is strictly later than the BIP16
\* activation.
C6_P2SHCountedAfterActivation ==
    /\ pc = "sigops" => totalSigOps = SigOpsCountedTo(i - 1)
    /\ AfterSigOpPass => totalSigOps = SigOpsCountedTo(Len(transactions))

P2SHSigOps ==
    ExactSum([k \in 1..Len(transactions) |->
                 countP2SHSigOps(transactions[k], k = 1, chain.store).n])

\* At the activation time a block whose pay-to-script-hash signature
\* operations alone exceed the cap has passed the sig-op pass.
C6_Witness ==
    /\ node.timestamp = Bip16Activation
    /\ AfterSigOpPass
    /\ Lt(BigOf(maxSigOpsPerBlock), P2SHSigOps)

TooManySigOps == RuleError("block contains too many signature operations")

\* No count is negative and no running total of the counts is above the cap.
WithinCap(counts) ==
    \A k \in 1..Len(counts) :
        /\ Le(Zero, counts[k])
        /\ Le(ExactSum(SubSeq(counts, 1, k)), BigOf(maxSigOpsPerBlock))

\* The counts checkBlockSanity adds up for the first n transactions.
SanityCounts(n) == [k \in 1..n |-> countSigOps(transactions[k])]

\* The counts the sig-op pass adds up for the first n transactions.
ConnectCounts(n) == [k \in 1..n |-> NumSigOps(k).n]

\* C7: checkBlockSanity and the sig-op pass of checkConnectBlock let a block
\* through exactly when, after every transaction, the running total has
\* neither wrapped around nor gone above maxSigOpsPerBlock: a total of
\* exactly the cap passes, and the block is rejected at the first
\* transaction where the total is above it or wraps.
C7_SigOpCap ==
    /\ (pc = "start" /\ sanityErr = NoError)
          => WithinCap(SanityCounts(Len(transactions)))
    /\ (pc = "start" /\ sanityErr = TooManySigOps)
          => ~WithinCap(SanityCounts(Len(transactions)))
    /\ pc = "sigops" => WithinCap(ConnectCounts(i - 1))
    /\ (pc = "inputs" /\ i = 1 /\ j = 1)
          => WithinCap(ConnectCounts(Len(transactions)))
    /\ (pc = "done" /\ err = TooManySigOps)
          => WithinCap(ConnectCounts(i - 1)) /\ ~WithinCap(ConnectCounts(i))

\* A block of several transactions with exactly maxSigOpsPerBlock signature
\* operations has passed both checks.
C7_Witness ==
    /\ sanityErr = NoError
    /\ AfterSigOpPass
    /\ Len(transactions) > 1
    /\ totalSigOps = BigOf(maxSigOpsPerBlock)

MaturityError ==
    RuleError("tried to spend coinbase transaction before required maturity")

\* The transaction the input being checked refers to, as the store holds it.
PriorOfInput == txInputStore[transactions[i].TxIn[j].PreviousOutpoint.Hash]

\* The input pass is about to check an input whose transaction the store
\* holds.
AtInputWithPrior ==
    /\ AtInput
    /\ transactions[i].TxIn[j].PreviousOutpoint.Hash \in DOMAIN txInputStore
    /\ PriorOfInput.tx # NilTx

\* C8: an input is rejected with the coinbase-maturity rule error exactly
\* when the transaction it refers to is a coinbase and node.height less the
\* height of that transaction's block is below coinbaseMaturity; an input
\* referring to a transaction that is no coinbase is never rejected by it.
C8_CoinbaseMaturity ==
    [][AtInputWithPrior
         => ((pc' = "done" /\ err' = MaturityError)
               <=> (/\ isCoinBase(PriorOfInput.tx)
                    /\ node.height - PriorOfInput.blockHeight < coinbaseMaturity))]_vars

\* The block was rejected for an input spending a coinbase of 99 blocks
\* before.
C8_Witness ==
    /\ pc = "done"
    /\ err = MaturityError
    /\ node.height - PriorOfInput.blockHeight = coinbaseMaturity - 1

\* The script verifier is to run: verification is on and the node is past
\* the latest checkpoint, if there is one.
ScriptsToRun ==
    /\ ~noVerify
    /\ (chain.checkpoint = NilCheckpoint \/ node.height > chain.checkpoint.Height)

\* C9: checkBlockScripts is called only once every earlier step has passed,
\* and then exactly when noVerify is false and there is no checkpoint or
\* node.height is above the checkpoint's height; when it is not called the
\* block is accepted, when it is called its error is the result.
C9_ScriptsAfterCheckpoint ==
    [][/\ pc \notin {"scripts", "done"}
            => calls'.checkBlockScripts = calls.checkBlockScripts
       /\ pc = "scripts"
            => /\ pc' = "done"
               /\ IF ScriptsToRun
                  THEN /\ calls'.checkBlockScripts = calls.checkBlockScripts + 1
                       /\ err' = chain.scriptsErr
                  ELSE /\ calls'.checkBlockScripts = calls.checkBlockScripts
                       /\ err' = NoError]_vars

\* A block whose scripts do not verify was accepted without the verifier
\* being called, verification being on, at the height of the checkpoint.
C9_Witness ==
    /\ Accepted /\ NonGenesis
    /\ ~noVerify
    /\ chain.scriptsErr # NoError
    /\ chain.checkpoint # NilCheckpoint
    /\ chain.checkpoint.Height = node.height
    /\ calls.checkBlockScripts = 0

\* Every output value of the transaction is within 0..maxSatoshi, and so is
\* every running sum of them, which is then within int64 as well.
OutputsInRange(tx) ==
    \A k \in 1..Len(tx.TxOut) :
        /\ Le(Zero, tx.TxOut[k].Value) /\ Le(tx.TxOut[k].Value, maxSatoshi)
        /\ Le(Zero, ExactSum(SubSeq(OutputValues(tx), 1, k)))
        /\ Le(ExactSum(SubSeq(OutputValues(tx), 1, k)), maxSatoshi)

\* C10, on the return of checkBlockSanity, which has called
\* checkTransactionSanity on the block's transactions: every transaction
\* checkTransactionSanity returns success on has
\* each output value and each running sum of its output values within
\* 0..maxSatoshi; so have all the transactions of a block checkBlockSanity
\* returned success on.
C10_SaneOutputsInRange ==
    pc = "start" =>
        /\ \A k \in 1..Len(transactions) :
               checkTransactionSanity(transactions[k]) = NoError
                  => OutputsInRange(transactions[k])
        /\ sanityErr = NoError
              => \A k \in 1..Len(transactions) : OutputsInRange(transactions[k])

\* checkBlockSanity returned success on a block with a transaction of
\* several outputs that sum to exactly maxSatoshi.
C10_Witness ==
    /\ sanityErr = NoError
    /\ \E k \in 1..Len(transactions) :
           /\ Len(transactions[k].TxOut) > 1
           /\ ExactSum(OutputValues(transactions[k])) = maxSatoshi

\* C11: a block checkBlockSanity returns success on has a transaction, its
\* first transaction is a coinbase and no other is, the merkle root
\* computed from its transactions is the one of its header, and no two of
\* its transactions have the same hash.
C11_SaneBlockShape ==
    (pc = "start" /\ sanityErr = NoError)
        => /\ Len(transactions) >= 1
           /\ isCoinBase(transactions[1])
           /\ \A k \in 2..Len(transactions) : ~isCoinBase(transactions[k])
           /\ block.header.MerkleRoot = CalculatedMerkleRoot(block)
           /\ \A k, m \in 1..Len(transactions) :
                 k # m => transactions[k].sha # transactions[m].sha

\* checkBlockSanity returned success on a block of three transactions.
C11_Witness ==
    /\ pc = "start"
    /\ sanityErr = NoError
    /\ Len(transactions) = 3

\* The store of the call holds the entries the chain answered with, changed
\* in their spent bits at most.
OnlySpentChanged ==
    txInputStore # << >>
        => /\ DOMAIN txInputStore = DOMAIN chain.store
           /\ \A h \in DOMAIN chain.store :
                 /\ Len(txInputStore[h].spent) = Len(chain.store[h].spent)
                 /\ [txInputStore[h] EXCEPT !.spent = chain.store[h].spent]
                       = chain.store[h]

\* C13: within a call of checkConnectBlock no step, whether it succeeds or
\* fails, turns a spent bit of the call's store from true to false.
C13_SpentOnlyGrows ==
    [][\A h \in DOMAIN txInputStore \cap DOMAIN txInputStore' :
          \A k \in 1..Len(txInputStore[h].spent) :
             txInputStore[h].spent[k]
                => (k <= Len(txInputStore'[h].spent) /\ txInputStore'[h].spent[k])]_vars

\* The call failed after an output was marked in an entry that had another
\* output spent from the start; both bits are set.
C13_Witness ==
    /\ pc = "done"
    /\ err # NoError
    /\ hashA \in DOMAIN txInputStore
    /\ chain.store[hashA].spent = <<TRUE, FALSE>>
    /\ txInputStore[hashA].spent = <<TRUE, TRUE>>

-----------------------------------------------------------------------------
(* Properties of the functions called on their own.                        *)

\* The call of fn has returned.
HasReturned(fn) == args.fn = fn /\ result # Pending

RECURSIVE TimesPow2(_, _)
\* x * 2^k.
TimesPow2(x, k) == IF k = 0 \/ x = Zero THEN x ELSE TimesPow2(Add(x, x), k - 1)

\* q = floor(x / 2^k), for x >= 0.
IsFloorOfDivPow2(q, x, k) ==
    /\ Le(Zero, q)
    /\ Le(TimesPow2(q, k), x)
    /\ Lt(x, TimesPow2(Add(q, BigOf(1)), k))

\* C14: for a height of 0 or more calcBlockSubsidy returns
\* floor(50*10^8 / 2^(height div 210000)): 50*10^8 at heights 0 and 209999,
\* 25*10^8 at 210000, 0 at 6930000 and 0 at every height whose quotient is
\* 64 or more; and no more than at any lower height.
C14_SubsidyHalves ==
    HasReturned("calcBlockSubsidy") =>
        LET h == args.height
            k == h \div 210000
        IN  /\ k >= 64 => result.value = Zero
            /\ IsFloorOfDivPow2(result.value, Times(50, 100000000), k)
            /\ h \in {0, 209999} => result.value = Times(50, 100000000)
            /\ h = 210000 => result.value = Times(25, 100000000)
            /\ h = 6930000 => result.value = Zero
            /\ \A lower \in SubsidyHeights :
                  lower <= h => Le(result.value, calcBlockSubsidy(lower))

\* calcBlockSubsidy has returned 0 at the first height whose quotient is 64.
C14_Witness ==
    /\ HasReturned("calcBlockSubsidy")
    /\ args.height = 64 * 210000
    /\ result.value = Zero

\* C15: isFinalizedTransaction returns true exactly when the lock time is
\* 0, or is below 500000000 and below the block height, or is 500000000 or
\* more and below the block time, or every input has sequence 0xFFFFFFFF.
C15_Finalized ==
    HasReturned("isFinalizedTransaction") =>
        LET lt == args.msgTx.LockTime
            ins == args.msgTx.TxIn
        IN  result.value
              <=> \/ lt = Zero
                  \/ Lt(lt, BigOf(500000000)) /\ Lt(lt, args.blockHeight)
                  \/ Le(BigOf(500000000), lt) /\ Lt(lt, args.blockTime)
                  \/ \A k \in 1..Len(ins) : ins[k].Sequence = MaxUint32

\* A lock time of 500000000 was compared with the block time it equals,
\* not with the greater height, and with an input of lower sequence the
\* transaction was found not finalized.
C15_Witness ==
    /\ HasReturned("isFinalizedTransaction")
    /\ args.msgTx.LockTime = BigOf(500000000)
    /\ args.blockTime = BigOf(500000000)
    /\ args.blockHeight = BigOf(500000001)
    /\ result.value = FALSE

\* The signature script of the coinbase passed to checkSerializedHeight.
ScriptOfCall == args.coinbaseTx.TxIn[1].SignatureScript.bytes

\* C16: checkSerializedHeight returns success exactly when the signature
\* script of the coinbase has four bytes or more, its byte 0 is the opcode
\* that pushes three bytes and its bytes 1 to 3, read as a little-endian
\* number, are wantHeight; for every other script it returns a rule error.
C16_SerializedHeight ==
    HasReturned("checkSerializedHeight") =>
        /\ result.value = NoError
              <=> /\ Len(ScriptOfCall) >= 4
                  /\ ScriptOfCall[1] = 3
                  /\ ScriptOfCall[2] + 256 * ScriptOfCall[3] + 65536 * ScriptOfCall[4]
                        = args.wantHeight
        /\ result.value # NoError => result.value.type = "RuleError"

(***************************************************************************)
(* The store after a call, and the order of the steps of a call.           *)
(***************************************************************************)
\* The outpoints the inputs of the block's transactions other than coinbases
\* refer to.
ReferencedOutpoints ==
    UNION { { transactions[k].TxIn[n].PreviousOutpoint :
                n \in 1..Len(transactions[k].TxIn) } :
            k \in { k \in 1..Len(transactions) : ~isCoinBase(transactions[k]) } }

\* Output k (from 1) of the transaction h is one of the referenced outpoints.
IsReferenced(h, k) == OutPoint(h, k - 1) \in ReferencedOutpoints

\* C17: when checkConnectBlock returns success on a block other than the
\* genesis block, every outpoint referenced by an input of a transaction
\* that is no coinbase was an output of an entry of the store, unspent
\* before the call and spent after it, and every other spent bit of the
\* store is what it was before the call.
C17_SpentExactlyReferenced ==
    (Accepted /\ NonGenesis) =>
        /\ \A o \in ReferencedOutpoints :
              /\ o.Hash \in DOMAIN chain.store
              /\ chain.store[o.Hash].tx # NilTx
              /\ Lt(o.Index, BigOf(Len(chain.store[o.Hash].spent)))
              /\ ~chain.store[o.Hash].spent[ToInt(o.Index) + 1]
              /\ txInputStore[o.Hash].spent[ToInt(o.Index) + 1]
        /\ DOMAIN txInputStore = DOMAIN chain.store
        /\ \A h \in DOMAIN chain.store :
              /\ Len(txInputStore[h].spent) = Len(chain.store[h].spent)
              /\ \A k \in 1..Len(chain.store[h].spent) :
                    ~IsReferenced(h, k)
                        => txInputStore[h].spent[k] = chain.store[h].spent[k]

\* An accepted block spent one output of an entry and left the other output
\* of the entry, and the outputs of another entry, as they were.
C17_Witness ==
    /\ Accepted /\ NonGenesis
    /\ ReferencedOutpoints = {OutPoint(hashA, 0)}
    /\ hashB \in DOMAIN chain.store
    /\ chain.store[hashA].spent = <<FALSE, FALSE>>
    /\ txInputStore[hashA].spent = <<TRUE, FALSE>>
    /\ txInputStore[hashB] = chain.store[hashB]

\* The steps of checkConnectBlock in the order of the code.
StepOrder ==
    [sanity |-> 0, start |-> 1, bip30 |-> 2, fetch |-> 3, sigops |-> 4,
     inputs |-> 5, cap |-> 6, scripts |-> 7, done |-> 8]

\* The call is at step s or past it, without having returned.
Reached(s) == StepOrder[s] <= StepOrder[pc] /\ pc # "done"

FeeOverflowError == RuleError("total fees for block overflows accumulator")

RECURSIVE AccumulatedFees(_)
\* Lines 796 and 806: totalFees after the fees of the first k transactions.
AccumulatedFees(k) ==
    IF k = 0 THEN Zero ELSE I64Add(AccumulatedFees(k - 1), fees[k])

\* Line 807 has found no total below the one before it.
FeesAccumulated ==
    \A k \in 1..Len(fees) : ~Lt(AccumulatedFees(k), AccumulatedFees(k - 1))

\* The steps before script verification have all succeeded.
AllPassed ==
    /\ enforceBIP0030 => checkBIP0030(block, chain) = NoError
    /\ chain.fetchInputErr = NoError
    /\ totalSigOps = SigOpsCountedTo(Len(transactions))
    /\ Le(totalSigOps, BigOf(maxSigOpsPerBlock))
    /\ Len(fees) = Len(transactions)
    /\ FeesAccumulated
    /\ totalFees = AccumulatedFees(Len(fees))
    /\ Le(SumValues(transactions[1].TxOut, Zero),
          I64Add(calcBlockSubsidy(node.height), totalFees))

\* C18: checkBlockScripts is called at most once in a call, and only after
\* the BIP30 check (when enforced), the input fetch, the whole sig-op pass,
\* the whole input pass and the coinbase cap check have succeeded; a step
\* runs only when the steps before it have succeeded, and a step that fails
\* returns its error at once: no later step has run or runs after it.
C18_ScriptsLastFailFast ==
    /\ [](calls.checkBlockScripts <= 1)
    /\ []((calls.checkBlockScripts = 1 \/ pc = "scripts") => AllPassed)
    /\ [](Reached("fetch") => (enforceBIP0030 => checkBIP0030(block, chain) = NoError))
    /\ [](Reached("sigops") => chain.fetchInputErr = NoError)
    /\ [](Reached("inputs") => totalSigOps = SigOpsCountedTo(Len(transactions)))
    /\ [](Reached("cap") => Len(fees) = Len(transactions))
    /\ [](err # NoError => pc = "done")
    /\ [][/\ pc # "done" => StepOrder[pc'] >= StepOrder[pc]
          /\ pc = "done" => pc' = "start" /\ first' # NoRun
          /\ (pc # "done" /\ pc' = "done" /\ err' # NoError)
                => /\ pc = "bip30" => err' = checkBIP0030(block, chain)
                   /\ pc = "fetch" => err' = chain.fetchInputErr
                   /\ pc = "scripts" => err' = chain.scriptsErr
                   /\ StepOrder[pc] < StepOrder["fetch"]
                        => calls'.fetchInputTransactions = 0 /\ txInputStore' = << >>
                   /\ StepOrder[pc] < StepOrder["sigops"] => totalSigOps' = Zero
                   /\ StepOrder[pc] < StepOrder["inputs"]
                        => fees' = << >> /\ txInputStore' \in {<< >>, chain.store}
                   /\ StepOrder[pc] < StepOrder["scripts"]
                        => calls'.checkBlockScripts = 0]_vars

\* The verifier was called once and failed, on a node where BIP30 is
\* enforced and a block with a spending transaction.
C18_Witness ==
    /\ pc = "done"
    /\ calls.checkBlockScripts = 1
    /\ calls.checkBIP0030 = 1
    /\ err = chain.scriptsErr /\ err # NoError
    /\ Len(transactions) >= 2
    /\ txInputStore # chain.store

\* The step taken changes a spent bit of the store the call holds.
SpentBitWritten ==
    /\ txInputStore # << >>
    /\ txInputStore' # << >>
    /\ \E h \in DOMAIN txInputStore \cap DOMAIN txInputStore' :
          txInputStore'[h].spent # txInputStore[h].spent

\* The step taken returns an error from the BIP30 check, the input fetch or
\* the sig-op pass.
RejectedBeforeInputPass ==
    /\ pc \in {"bip30", "fetch", "sigops"}
    /\ pc' = "done"
    /\ err' # NoError

\* C19: the sig-op pass has counted every transaction of the block before
\* the input pass checks the first; a spent bit is written by a step of
\* checkTransactionInputs and by no other step; and a call rejected by the
\* BIP30 check, by the input fetch or by the sig-op pass, an error of
\* countP2SHSigOps included, leaves every spent bit as it was at the start.
C19_SigOpsBeforeInputs ==
    /\ [](pc = "inputs" => totalSigOps = SigOpsCountedTo(Len(transactions)))
    /\ []((pc = "sigops" /\ i <= Len(transactions))
             => fees = << >> /\ txInputStore = chain.store)
    /\ [][/\ pc = "inputs" => pc' # "sigops" /\ totalSigOps' = totalSigOps
          /\ SpentBitWritten
                => /\ pc = "inputs" /\ j <= Len(transactions[i].TxIn)
                   /\ ~isCoinBase(transactions[i])
          /\ RejectedBeforeInputPass
                => /\ txInputStore' \in {<< >>, chain.store}
                   /\ pc = "sigops" => txInputStore' = chain.store]_vars

\* countP2SHSigOps failed on the second transaction of a block whose inputs
\* refer to unspent outputs of the store; the store is as it was fetched.
C19_Witness ==
    /\ pc = "done"
    /\ node.timestamp > Bip16Activation
    /\ Len(transactions) >= 3
    /\ transactions[2].sha = "g1"
    /\ err = countP2SHSigOps(transactions[3], FALSE, chain.store).err
    /\ err # NoError
    /\ fees = << >>
    /\ txInputStore = chain.store
    /\ \E o \in ReferencedOutpoints :
          /\ o.Hash \in DOMAIN chain.store
          /\ \E k \in 1..Len(chain.store[o.Hash].spent) : ~chain.store[o.Hash].spent[k]

\* The transaction passed to checkTransactionSanity.
TxOfCall == args.tx

\* The rules of checkTransactionSanity the transaction breaks, each taken on
\* its own, numbered in the order of their first statements in the code.
BrokenRules ==
    LET tx == TxOfCall
        values == OutputValues(tx)
        InRange(v) == Le(Zero, v) /\ Le(v, maxSatoshi)
    IN  { r \in 1..6 :
            \/ r = 1 /\ (Len(tx.TxIn) = 0 \/ Len(tx.TxOut) = 0)
            \/ r = 2 /\ \E k \in 1..Len(values) : ~InRange(values[k])
            \/ r = 3 /\ \E k \in 1..Len(values) :
                          /\ \A n \in 1..k : InRange(values[n])
                          /\ Lt(maxSatoshi, ExactSum(SubSeq(values, 1, k)))
            \/ r = 4 /\ \E a, b \in 1..Len(tx.TxIn) :
                          a < b /\ tx.TxIn[a].PreviousOutpoint = tx.TxIn[b].PreviousOutpoint
            \/ r = 5 /\ Len(tx.TxIn) >= 1 /\ isCoinBase(tx)
                     /\ ( \/ tx.TxIn[1].SignatureScript.len < minCoinbaseScriptLen
                          \/ tx.TxIn[1].SignatureScript.len > maxCoinbaseScriptLen )
            \/ r = 6 /\ Len(tx.TxIn) >= 1 /\ ~isCoinBase(tx)
                     /\ \E k \in 1..Len(tx.TxIn) :
                          isNullOutpoint(tx.TxIn[k].PreviousOutpoint) }

\* The error strings of checkTransactionSanity by the rule they report.
RuleStrings ==
    <<{"transaction has no inputs", "transaction has no outputs"},
      {"transaction output has negative value",
       "transaction output value is higher than max allowed value"},
      {"total value of all transaction outputs has negative value",
       "total value of all transaction outputs is higher than max allowed value"},
      {"transaction contains duplicate outpoint"},
      {"coinbase transaction script length is out of range"},
      {"transaction input refers to previous output that is null"}>>

\* C20: checkTransactionSanity returns no error for a transaction that
\* breaks no rule and otherwise a rule error with a string of the first
\* rule, in the order 1 to 6, that the transaction breaks, the strings of
\* different rules being different; so a transaction with an output value
\* out of range is reported under rule 2 even when the sum of its outputs
\* is over maxSatoshi, wherever the output is.
C20_FirstBrokenRule ==
    HasReturned("checkTransactionSanity") =>
        /\ \A r, s \in 1..6 : r # s => RuleStrings[r] \cap RuleStrings[s] = {}
        /\ IF BrokenRules = {}
           THEN result.value = NoError
           ELSE /\ result.value.type = "RuleError"
                /\ \A r \in BrokenRules :
                      (\A s \in BrokenRules : r <= s)
                          => result.value.text \in RuleStrings[r]

\* The value of output k of the transaction is within 0 and maxSatoshi.
ValueInRange(k) ==
    Le(Zero, OutputValues(TxOfCall)[k]) /\ Le(OutputValues(TxOfCall)[k], maxSatoshi)

\* The outputs up to k have values in range and a sum over maxSatoshi.
SumOver(k) ==
    /\ \A n \in 1..k : ValueInRange(n)
    /\ Lt(maxSatoshi, ExactSum(SubSeq(OutputValues(TxOfCall), 1, k)))

\* The outputs at which the loop over the outputs has something to report.
FailingOutputs ==
    { k \in 1..Len(TxOfCall.TxOut) : ~ValueInRange(k) \/ SumOver(k) }

\* The rule reported for a transaction that breaks one: rule 1, else the
\* rule of the first failing output, its value before the sum, else the
\* first of the rules 4 to 6.
RuleToReport ==
    IF 1 \in BrokenRules THEN 1
    ELSE IF FailingOutputs # {}
    THEN LET k == CHOOSE n \in FailingOutputs : \A m \in FailingOutputs : n <= m
         IN  IF ValueInRange(k) THEN 3 ELSE 2
    ELSE CHOOSE r \in BrokenRules : \A s \in BrokenRules : r <= s

\* C20 as amended: checkTransactionSanity returns no error for a
\* transaction that breaks no rule; otherwise it reports rule 1 if broken,
\* else what the first output has to report at which either the value is
\* out of range (rule 2) or the running sum is over maxSatoshi (rule 3),
\* else the first broken rule of 4, 5 and 6; the strings of different rules
\* differ.  A transaction whose running sum goes over maxSatoshi at an
\* output before its first out-of-range output is reported under rule 3.
C20_FirstBrokenRuleByOutput ==
    HasReturned("checkTransactionSanity") =>
        /\ \A r, s \in 1..6 : r # s => RuleStrings[r] \cap RuleStrings[s] = {}
        /\ IF BrokenRules = {}
           THEN result.value = NoError
           ELSE /\ result.value.type = "RuleError"
                /\ result.value.text \in RuleStrings[RuleToReport]

\* A transaction whose third output is negative was reported for the sum
\* of its first two outputs.
C20_Witness ==
    /\ HasReturned("checkTransactionSanity")
    /\ OutputValues(TxOfCall) = <<maxSatoshi, Sat(1), Sat(-1)>>
    /\ BrokenRules = {2, 3}
    /\ result.value.text \in RuleStrings[3]

DuplicateOutpointError == RuleError("transaction contains duplicate outpoint")

\* Two inputs of the transaction refer to the same (hash, index) pair.
EqualOutpoints ==
    \E a, b \in 1..Len(TxOfCall.TxIn) :
        a # b /\ TxOfCall.TxIn[a].PreviousOutpoint = TxOfCall.TxIn[b].PreviousOutpoint

\* C21: checkTransactionSanity returns the duplicate-outpoint error only for
\* a transaction with two inputs of equal (hash, index) pairs, and for every
\* such transaction that has inputs and outputs with values and sums in
\* range; the lookup keys of two inputs with different pairs differ, whether
\* they share the hash, the index or neither.
C21_DuplicateOutpoints ==
    HasReturned("checkTransactionSanity") =>
        /\ result.value = DuplicateOutpointError => EqualOutpoints
        /\ (BrokenRules \cap {1, 2, 3} = {} /\ EqualOutpoints)
              => result.value = DuplicateOutpointError
        /\ \A a, b \in 1..Len(TxOfCall.TxIn) :
              TxOfCall.TxIn[a].PreviousOutpoint # TxOfCall.TxIn[b].PreviousOutpoint
                 => OutpointKey(TxOfCall.TxIn[a].PreviousOutpoint)
                       # OutpointKey(TxOfCall.TxIn[b].PreviousOutpoint)

\* A transaction spending the outputs 1 and 11 of one transaction was
\* accepted.
C21_Witness ==
    /\ HasReturned("checkTransactionSanity")
    /\ Len(TxOfCall.TxIn) = 2
    /\ TxOfCall.TxIn[1].PreviousOutpoint = OutPoint(hashA, 1)
    /\ TxOfCall.TxIn[2].PreviousOutpoint = OutPoint(hashA, 11)
    /\ result.value = NoError

\* The values of the prior outputs the inputs of tx refer to, for a
\* transaction on which checkTransactionInputs has returned success.
InputValues(tx) ==
    [n \in 1..Len(tx.TxIn) |->
        chain.store[tx.TxIn[n].PreviousOutpoint.Hash]
            .tx.TxOut[ToInt(tx.TxIn[n].PreviousOutpoint.Index) + 1].Value]

\* C22: the fee checkTransactionInputs returned for a coinbase is 0; the
\* fee it returned for another transaction that passes
\* checkTransactionSanity is the sum of the prior outputs its inputs refer
\* to less the sum of its outputs, and 0 <= fee <= input sum <= maxSatoshi.
C22_FeeWithinInputs ==
    \A k \in 1..Len(fees) :
        LET tx == transactions[k] IN
        IF isCoinBase(tx) THEN fees[k] = Zero
        ELSE checkTransactionSanity(tx) = NoError
               => /\ fees[k] = Sub(ExactSum(InputValues(tx)), ExactSum(OutputValues(tx)))
                  /\ Le(Zero, fees[k])
                  /\ Le(fees[k], ExactSum(InputValues(tx)))
                  /\ Le(ExactSum(InputValues(tx)), maxSatoshi)

\* A sane transaction with two inputs was passed with a fee above zero and
\* below the sum of its inputs.
C22_Witness ==
    /\ Len(fees) >= 2
    /\ ~isCoinBase(transactions[2])
    /\ checkTransactionSanity(transactions[2]) = NoError
    /\ Len(transactions[2].TxIn) = 2
    /\ Lt(Zero, fees[2])
    /\ Lt(fees[2], ExactSum(InputValues(transactions[2])))

\* Input k of the transaction passed to countP2SHSigOps cannot be looked up:
\* its prior transaction is absent from the store, has a fetch error or no
\* transaction, or its index is not one of the prior transaction's outputs.
PriorUnavailable(k) ==
    LET o == args.msgTx.TxIn[k].PreviousOutpoint IN
    \/ o.Hash \notin DOMAIN args.txStore
    \/ args.txStore[o.Hash].err # NoError
    \/ args.txStore[o.Hash].tx = NilTx
    \/ Le(BigOf(Len(args.txStore[o.Hash].tx.TxOut)), o.Index)

\* The precise count input k adds: that of its script if the prior output
\* pays to a script hash, nothing otherwise.
PreciseCount(k) ==
    LET txIn == args.msgTx.TxIn[k]
        o == txIn.PreviousOutpoint
    IN  IF args.txStore[o.Hash].tx.TxOut[ToInt(o.Index) + 1].PkScript.p2sh
        THEN txIn.SignatureScript.redeemSigOps
        ELSE Zero

\* The exact sum of the precise counts of the first n inputs.
PreciseCounts(n) == ExactSum([k \in 1..n |-> PreciseCount(k)])

\* C23: countP2SHSigOps returns 0 and no error when the coinbase flag is
\* set, whatever the store holds; otherwise it returns an error and the
\* count 0 at the first input whose prior transaction is absent from the
\* store, has a fetch error or no transaction, or whose index is not below
\* the number of outputs of the prior transaction; and when it returns no
\* error every input could be looked up and the count is the sum of the
\* precise counts of the inputs whose prior output pays to a script hash.
C23_PreciseP2SHCount ==
    HasReturned("countP2SHSigOps") =>
        LET ins == 1..Len(args.msgTx.TxIn)
            r == result.value
        IN
        /\ args.isCoinBaseTx => r = [n |-> Zero, err |-> NoError]
        /\ r.err # NoError => r.n = Zero
        /\ ~args.isCoinBaseTx =>
              /\ \A k \in ins :
                    ( /\ PriorUnavailable(k)
                      /\ \A m \in 1..(k - 1) : ~PriorUnavailable(m)
                      /\ ~args.msgTx.shaErr
                      /\ Le(PreciseCounts(k - 1), MaxInt64) )
                       => /\ r.err # NoError
                          /\ r.err.text \in {"unable to find input transaction",
                                             "out of bounds input index"}
              /\ r.err = NoError
                    => /\ \A k \in ins : ~PriorUnavailable(k)
                       /\ r.n = PreciseCounts(Len(args.msgTx.TxIn))
              /\ ( /\ \A k \in ins : ~PriorUnavailable(k)
                   /\ ~args.msgTx.shaErr
                   /\ Le(PreciseCounts(Len(args.msgTx.TxIn)), MaxInt64) )
                    => r.err = NoError

\* Of two inputs spending outputs of one transaction, the one whose prior
\* output pays to a script hash was counted and the other was not.
C23_Witness ==
    /\ HasReturned("countP2SHSigOps")
    /\ ~args.isCoinBaseTx
    /\ Len(args.msgTx.TxIn) = 2
    /\ result.value = [n |-> Sat(2), err |-> NoError]
    /\ PreciseCount(1) = Zero
    /\ args.msgTx.TxIn[1].SignatureScript.redeemSigOps = Sat(1)

\* The step taken is checkTransactionInputs rejecting transaction i, at its
\* input j or, with j past the inputs, after the loop over them: it returns
\* an error, lines 798-801.  The return of line 808, taken after it has
\* returned a fee, and a panic inside it are no rejections by it.
InputPassRejects ==
    /\ pc = "inputs"
    /\ pc' = "done"
    /\ err' # NoError
    /\ err'.type # "panic"
    /\ fees' = fees

\* The inputs checkTransactionInputs marked before the step: those of the
\* transactions before i that are no coinbases, and those before j of i.
MarkedBefore ==
    UNION { { <<k, n>> : n \in { n \in 1..Len(transactions[k].TxIn) : k = i => n < j } } :
            k \in { k \in 1..i : ~isCoinBase(transactions[k]) } }

\* The spent bit of the outpoint o in the store s.
SpentBit(s, o) == s[o.Hash].spent[ToInt(o.Index) + 1]

\* The outpoint o has a spent bit in the store the chain answered with.
HasSpentBit(o) ==
    /\ o.Hash \in DOMAIN chain.store
    /\ Lt(o.Index, BigOf(Len(chain.store[o.Hash].spent)))

\* The input at which the step rejects: there is none when the hash of the
\* transaction fails or the rejection comes after the loop.
FailingInput ==
    IF j <= Len(transactions[i].TxIn) /\ ~transactions[i].shaErr
    THEN {transactions[i].TxIn[j].PreviousOutpoint}
    ELSE {}

\* C24 as claimed: when checkTransactionInputs rejects, the store the call
\* leaves keeps the spent bits set by the earlier inputs, and the bit of the
\* failing input has the value it had when the call began.
C24_FailingBitAsAtStart ==
    [][InputPassRejects =>
          /\ txInputStore' = txInputStore
          /\ \A kn \in MarkedBefore :
                SpentBit(txInputStore', transactions[kn[1]].TxIn[kn[2]].PreviousOutpoint)
          /\ \A o \in FailingInput :
                HasSpentBit(o) => SpentBit(txInputStore', o) = SpentBit(chain.store, o)]_vars

\* C24 as amended: when checkTransactionInputs rejects, the rejecting step
\* writes nothing, the store the call leaves keeps the spent bits set by
\* the earlier inputs of the transaction and of the transactions before it,
\* and the bit of the failing input has the value it had when the call
\* began unless an earlier input referred to the same outpoint, in which
\* case the bit is set and the rejection is the double spend.
C24_NoRollback ==
    [][InputPassRejects =>
          /\ txInputStore' = txInputStore
          /\ \A kn \in MarkedBefore :
                SpentBit(txInputStore', transactions[kn[1]].TxIn[kn[2]].PreviousOutpoint)
          /\ \A o \in FailingInput :
                HasSpentBit(o) =>
                   IF \E kn \in MarkedBefore :
                         transactions[kn[1]].TxIn[kn[2]].PreviousOutpoint = o
                   THEN SpentBit(txInputStore', o) /\ err' = DoubleSpendError
                   ELSE SpentBit(txInputStore', o) = SpentBit(chain.store, o)]_vars

\* A transaction was rejected after the loop over its inputs, for spending
\* more than they hold, and the outputs it referred to are left spent.
C24_Witness ==
    /\ pc = "done"
    /\ err = RuleError("total value of all transaction inputs is less than the amount spent")
    /\ txInputStore # chain.store
    /\ \A o \in ReferencedOutpoints : HasSpentBit(o) /\ ~SpentBit(chain.store, o)

(***************************************************************************)
(* The lookup helpers of controlPanel/searchResultHandler.go, each run by  *)
(* a request of its own, the requests interleaving step by step.           *)
(***************************************************************************)
\* Two requests at a time.
Requests == {1, 2}

Helpers ==
    { "getEntry", "getEblock", "getDblock", "getAblock", "getFblock", "getECblock",
      "getEcTransaction", "getFactTransaction", "getAllChainEntries" }

\* The most entries of a chain or of an entry block, and the most entry
\* blocks of a directory block, that a helper looks up one by one.
MaxChainEntries == 1

\* What the collaborators answer to a call of a helper: whether HexToHash
\* accepts the hash, what the fetch under the lock gives, whether the value
\* fetched passes the test after it (GetEntryHash, GetInputs, GetHeader not
\* nil, or the decoding), whether getFactoidAck gives a status, whether
\* FetchAllEBlocksByChain fails, and the number of entries the helper goes
\* on to look up.
Answer(hash, fetch, part, ack, chainErr, entries) ==
    [hash |-> hash, fetch |-> fetch, part |-> part, ack |-> ack,
     chainErr |-> chainErr, entries |-> entries]

AnswersTo(fn) ==
    { Answer("malformed", "absent", FALSE, FALSE, FALSE, 0),
      Answer("ok", "absent", FALSE, FALSE, FALSE, 0),
      Answer("ok", "error", FALSE, FALSE, FALSE, 0) }
    \cup IF fn = "getFactTransaction"
         THEN { Answer("ok", "found", FALSE, FALSE, FALSE, 0),
                Answer("ok", "found", TRUE, FALSE, FALSE, 0),
                Answer("ok", "found", TRUE, TRUE, FALSE, 0) }
         ELSE IF fn = "getAllChainEntries"
         THEN { Answer("ok", "found", TRUE, FALSE, TRUE, 0) }
              \cup { Answer("ok", "found", TRUE, FALSE, FALSE, n) : n \in 0..MaxChainEntries }
         ELSE IF fn \in {"getEblock", "getDblock"}
         THEN { Answer("ok", "found", FALSE, FALSE, FALSE, 0) }
              \cup { Answer("ok", "found", TRUE, FALSE, FALSE, n) : n \in 0..MaxChainEntries }
         ELSE IF fn = "getEntry"
         THEN { Answer("ok", "found", TRUE, FALSE, FALSE, 0) }
         ELSE { Answer("ok", "found", p, FALSE, FALSE, 0) : p \in BOOLEAN }

\* The answers to a helper called by another helper, lines 586, 678 and
\* 815: the hash is the String() of a hash, which HexToHash accepts.
NestedAnswersTo(fn) == {a \in AnswersTo(fn) : a.hash = "ok"}

\* A request at the call of the helper fn; callers are the helpers waiting
\* for it to return, the latest first.
Called(fn, answer) ==
    [fn |-> fn, pc |-> "call", answer |-> answer, left |-> 0, callers |-> << >>,
     value |-> "none", locks |-> 0, unlocks |-> 0]

InitLookups ==
    /\ Idle
    /\ args = NoArgs /\ result = Pending
    /\ dbLock = 0
    /\ crashed = FALSE
    /\ msg = NoMessage
    /\ ebal = 0
    /\ \E fns \in [Requests -> Helpers] :
          \E answers \in [Requests -> UNION {AnswersTo(fn) : fn \in Helpers}] :
             /\ \A r \in Requests : answers[r] \in AnswersTo(fns[r])
             /\ lookup = [r \in Requests |-> Called(fns[r], answers[r])]

\* The request r moves to position p of its helper.
Goto(r, p) == lookup' = [lookup EXCEPT ![r].pc = p]

\* The helper of request r returns v: to the request, or to the loop of the
\* helper that called it (lines 571-592, 660-682, 812-819), which goes on
\* with its next entry.
ReturnValue(r, v) ==
    IF lookup[r].callers = << >>
    THEN lookup' = [lookup EXCEPT ![r].pc = "returned", ![r].value = v]
    ELSE LET caller == Head(lookup[r].callers) IN
         lookup' = [lookup EXCEPT ![r].fn = caller.fn,
                                  ![r].answer = caller.answer,
                                  ![r].left = caller.left - 1,
                                  ![r].callers = Tail(@),
                                  ![r].pc = "entries"]

\* primitives.HexToHash(hash) and the return of nil on its error.
HexToHash(r) ==
    /\ ~crashed
    /\ lookup[r].pc = "call"
    /\ IF lookup[r].answer.hash = "malformed"
       THEN ReturnValue(r, "nil")
       ELSE Goto(r, "lock")
    /\ UNCHANGED <<btcchain, dbLock, crashed, msg, ebal>>

\* StatePointer.GetAndLockDB(): waits until the mutex is unlocked.
GetAndLockDB(r) ==
    /\ ~crashed
    /\ lookup[r].pc \in {"lock", "lock2"}
    /\ dbLock = 0
    /\ dbLock' = r
    /\ lookup' = [lookup EXCEPT ![r].locks = @ + 1,
                                ![r].pc = IF @ = "lock" THEN "fetch" ELSE "fetch2"]
    /\ UNCHANGED <<btcchain, crashed, msg, ebal>>

\* The fetch between GetAndLockDB and UnlockDB (lines 233, 252, 317, 353,
\* 406, 546, 644, 713, 775).
Fetch(r) ==
    /\ ~crashed
    /\ lookup[r].pc = "fetch"
    /\ Goto(r, "unlock")
    /\ UNCHANGED <<btcchain, dbLock, crashed, msg, ebal>>

\* StatePointer.UnlockDB(): unlocks the mutex whoever locked it; the runtime
\* ends the program when the mutex is not locked.
UnlockDB(r) ==
    /\ ~crashed
    /\ lookup[r].pc \in {"unlock", "unlockAgain", "unlockErr", "unlock2"}
    /\ IF dbLock = 0
       THEN crashed' = TRUE /\ UNCHANGED <<dbLock, lookup>>
       ELSE /\ dbLock' = 0
            /\ crashed' = crashed
            /\ LET after == [lookup EXCEPT ![r].unlocks = @ + 1] IN
               IF lookup[r].pc = "unlock"
               THEN lookup' = [after EXCEPT ![r].pc = "test"]
               ELSE IF lookup[r].pc = "unlock2"
               THEN lookup' = [after EXCEPT ![r].pc = "entries"]
               ELSE lookup' = [after EXCEPT ![r].pc = "returned", ![r].value = "nil"]
    /\ UNCHANGED <<btcchain, msg, ebal>>

\* The tests after the first UnlockDB and what follows them up to the next
\* call that touches the lock or to the return.  getEntry tests nothing of
\* the entry it found (lines 716-721).
TestFetched(r) ==
    /\ ~crashed
    /\ lookup[r].pc = "test"
    /\ LET fn == lookup[r].fn
           answer == lookup[r].answer
       IN
       IF answer.fetch # "found"
       THEN IF fn = "getAblock" THEN Goto(r, "unlockAgain") ELSE ReturnValue(r, "nil")
       ELSE IF fn = "getEntry"
       THEN ReturnValue(r, "holder")
       ELSE IF ~answer.part
       THEN ReturnValue(r, "nil")
       ELSE IF fn = "getFactTransaction" THEN Goto(r, "ack")
       ELSE IF fn = "getAllChainEntries" THEN Goto(r, "lock2")
       ELSE IF fn \in {"getEblock", "getDblock"}
       THEN lookup' = [lookup EXCEPT ![r].pc = "entries", ![r].left = answer.entries]
       ELSE ReturnValue(r, "holder")
    /\ UNCHANGED <<btcchain, dbLock, crashed, msg, ebal>>

\* Lines 261-271 of getFactTransaction: both branches dereference status.
GetFactoidAck(r) ==
    /\ ~crashed
    /\ lookup[r].pc = "ack"
    /\ IF lookup[r].answer.ack
       THEN ReturnValue(r, "transaction and status")
       ELSE lookup' = [lookup EXCEPT ![r].pc = "panicked",
                                     ![r].value = "nil pointer dereference"]
    /\ UNCHANGED <<btcchain, dbLock, crashed, msg, ebal>>

\* Lines 790-806 of getAllChainEntries.
FetchAllEBlocksByChain(r) ==
    /\ ~crashed
    /\ lookup[r].pc = "fetch2"
    /\ IF lookup[r].answer.chainErr
       THEN Goto(r, "unlockErr")
       ELSE lookup' = [lookup EXCEPT ![r].pc = "unlock2", ![r].left = lookup[r].answer.entries]
    /\ UNCHANGED <<btcchain, dbLock, crashed, msg, ebal>>

\* The loops of lines 571-592 of getEblock, 660-682 of getDblock and
\* 812-819 of getAllChainEntries: the call of getEntry (lines 586, 815) or
\* of getEblock (line 678) for the next entry, or the return after the last.
ChainEntries(r) ==
    /\ ~crashed
    /\ lookup[r].pc = "entries"
    /\ IF lookup[r].left > 0
       THEN LET callee == IF lookup[r].fn = "getDblock" THEN "getEblock" ELSE "getEntry"
                caller == [fn |-> lookup[r].fn, answer |-> lookup[r].answer,
                           left |-> lookup[r].left]
            IN \E answer \in NestedAnswersTo(callee) :
                  lookup' = [lookup EXCEPT ![r].fn = callee,
                                           ![r].answer = answer,
                                           ![r].left = 0,
                                           ![r].callers = <<caller>> \o @,
                                           ![r].pc = "call"]
       ELSE ReturnValue(r, IF lookup[r].fn = "getAllChainEntries"
                           THEN "entries" ELSE "holder")
    /\ UNCHANGED <<btcchain, dbLock, crashed, msg, ebal>>

NextLookups ==
    \E r \in Requests :
        \/ HexToHash(r)
        \/ GetAndLockDB(r)
        \/ Fetch(r)
        \/ UnlockDB(r)
        \/ TestFetched(r)
        \/ GetFactoidAck(r)
        \/ FetchAllEBlocksByChain(r)
        \/ ChainEntries(r)

SpecLookups == InitLookups /\ [][NextLookups]_vars

\* C25: every lookup helper calls UnlockDB once for each GetAndLockDB on
\* every path to its return, so that under every interleaving of requests
\* UnlockDB is called only by the request that holds the lock, on a locked
\* mutex, and a request that has returned does not hold the lock.
C25_UnlockOncePerLock ==
    /\ [](~crashed)
    /\ [](\A r \in Requests :
             lookup[r].pc = "returned"
                => lookup[r].locks = lookup[r].unlocks /\ dbLock # r)
    /\ [][\A r \in Requests :
             lookup'[r].unlocks # lookup[r].unlocks => dbLock = r]_vars

\* C28: getFactTransaction returns nil when the hash is malformed, when the
\* fetch fails, when the transaction is absent and when it has no inputs;
\* otherwise it returns the transaction with its acknowledgement status and
\* does not fail, whether getFactoidAck gives a status or nil.
C28_FactTransactionOrNil ==
    \A r \in Requests :
        lookup[r].fn = "getFactTransaction" =>
            /\ lookup[r].pc # "panicked"
            /\ lookup[r].pc = "returned" =>
                  lookup[r].value =
                     IF \/ lookup[r].answer.hash = "malformed"
                        \/ lookup[r].answer.fetch # "found"
                        \/ ~lookup[r].answer.part
                     THEN "nil"
                     ELSE "transaction and status"

\* The outpoint o refers to an entry of the store that carries a fetch
\* error or has no transaction, or to no output of the entry's transaction.
Unreadable(o) ==
    /\ o.Hash \in DOMAIN chain.store
    /\ \/ chain.store[o.Hash].err # NoError
       \/ chain.store[o.Hash].tx = NilTx
       \/ Le(BigOf(Len(chain.store[o.Hash].tx.TxOut)), o.Index)

\* C26: whether or not BIP16 is enforced, a call of checkConnectBlock on a
\* block with an input, of a transaction that is no coinbase, referring to a
\* store entry with a fetch error or without a transaction, or to an index
\* that is not an output of the entry's transaction, returns an error: it
\* neither accepts the block nor fails in reading the entry.
C26_UnreadableEntriesRejected ==
    (pc = "done" /\ NonGenesis /\ \E o \in ReferencedOutpoints : Unreadable(o))
        => err # NoError /\ err.type # "panic"

\* The transactions of the block checkTransactionInputs has inputs to look
\* at: those that are no coinbase and have at least one input.
SpendingPositions ==
    {k \in 1..Len(transactions) :
        ~isCoinBase(transactions[k]) /\ Len(transactions[k].TxIn) > 0}

FirstSpendingPosition ==
    CHOOSE k \in SpendingPositions : \A l \in SpendingPositions : k <= l

\* C27: after checkConnectBlock accepted a non-genesis block, a second call
\* with the same node and block on the store the first call left behind is
\* rejected as a double spend at the first input of the first transaction
\* that is no coinbase when the block has such an input, and is accepted
\* again when the block spends nothing.
C27_NotRepeatableOnSameStore ==
    (pc = "done" /\ first # NoRun /\ first.sameStore /\ first.err = NoError
        /\ NonGenesis)
        => IF SpendingPositions = {}
           THEN err = NoError
           ELSE /\ err = DoubleSpendError
                /\ i = FirstSpendingPosition
                /\ j = 1

C27_Witness ==
    /\ pc = "done"
    /\ first # NoRun
    /\ first.sameStore
    /\ first.err = NoError
    /\ NonGenesis
    /\ SpendingPositions # {}
    /\ FirstSpendingPosition > 1
    /\ err = DoubleSpendError

(***************************************************************************)
(* CommitEntryMsg.Validate of common/messages/commitEntry.go.  A message   *)
(* is its validsig flag and, of its CommitEntry, whether it is nil, the    *)
(* answer IsValid gives and the Credits; with it are kept the values       *)
(* Validate has returned, the number of calls of IsValid and whether a     *)
(* call panicked.  The int of line 210 is 64 bits wide, so that neither    *)
(* conversion changes a value.                                             *)
(***************************************************************************)
MaxCredits == 2

MaxBalance == 2

MaxValidates == 3

CommitEntries == [nil : {FALSE}, isValid : BOOLEAN, Credits : 0..MaxCredits]

\* The CommitEntry field of a message that was given none.
NilCommitEntry == [nil |-> TRUE, isValid |-> FALSE, Credits |-> 0]

\* What a call of IsValid on the nil CommitEntry may do: its body reads the
\* entry and panics, or answers without reading it.
NilAnswers == {"panic", "false", "true"}

\* Lines 243-245, NewCommitEntryMsg: new(CommitEntryMsg), all fields zero.
NewCommitEntryMsg ==
    [held |-> TRUE, validsig |-> FALSE, CommitEntry |-> NilCommitEntry,
     returned |-> << >>, isValidCalls |-> 0, panicked |-> FALSE]

InitCommit ==
    /\ Idle
    /\ args = NoArgs /\ result = Pending
    /\ dbLock = 0
    /\ lookup = << >>
    /\ crashed = FALSE
    /\ ebal \in -1..MaxBalance
    /\ msg = NewCommitEntryMsg

\* Lines 207-213: the flag is set, then the CommitEntry is read.
ValidateBalance(m, balance) ==
    IF m.CommitEntry.nil
    THEN [m EXCEPT !.validsig = TRUE, !.panicked = TRUE]
    ELSE [m EXCEPT !.validsig = TRUE,
                   !.returned = Append(@, IF m.CommitEntry.Credits > balance
                                          THEN 0 ELSE 1)]

\* Line 204: IsValid of the CommitEntry, "panic" when the call panics.
IsValid(m, onNil) ==
    IF m.CommitEntry.nil THEN onNil
    ELSE IF m.CommitEntry.isValid THEN "true" ELSE "false"

\* Lines 203-214 with the validsig flag forgotten: IsValid is asked at every
\* call.
ValidateStateless(m, balance, onNil) ==
    LET asked == [m EXCEPT !.isValidCalls = @ + 1] IN
    IF IsValid(m, onNil) = "panic" THEN [asked EXCEPT !.panicked = TRUE]
    ELSE IF IsValid(m, onNil) = "false" THEN [asked EXCEPT !.returned = Append(@, -1)]
    ELSE ValidateBalance(asked, balance)

\* Lines 203-214: the message after Validate, given the balance
\* GetECBalance answers with and what IsValid does on a nil CommitEntry.
validate(m, balance, onNil) ==
    LET asked == [m EXCEPT !.isValidCalls = @ + 1] IN
    IF m.validsig THEN ValidateBalance(m, balance)
    ELSE IF IsValid(m, onNil) = "panic" THEN [asked EXCEPT !.panicked = TRUE]
    ELSE IF IsValid(m, onNil) = "false" THEN [asked EXCEPT !.returned = Append(@, -1)]
    ELSE ValidateBalance(asked, balance)

\* A panic of Validate is not recovered: it ends the program.
Validate ==
    /\ msg.held
    /\ ~msg.panicked
    /\ Len(msg.returned) < MaxValidates
    /\ \E onNil \in NilAnswers : msg' = validate(msg, ebal, onNil)
    /\ UNCHANGED <<btcchain, dbLock, lookup, crashed, ebal>>

\* The entry-credit balance of the key of the message changes between two
\* calls of Validate.
SetECBalance ==
    /\ msg.held
    /\ ~msg.panicked
    /\ \E b \in -1..MaxBalance : b # ebal /\ ebal' = b
    /\ UNCHANGED <<btcchain, dbLock, lookup, crashed, msg>>

\* Lines 121-149: the message is given the CommitEntry read from the data,
\* line 138, or is left as it was when the call fails before that line;
\* the flag is not touched.
UnmarshalBinaryData ==
    /\ msg.held
    /\ ~msg.panicked
    /\ \E ce \in CommitEntries :
          /\ ce # msg.CommitEntry
          /\ msg' = [msg EXCEPT !.CommitEntry = ce]
    /\ UNCHANGED <<btcchain, dbLock, lookup, crashed, ebal>>

NextCommit ==
    \/ Validate
    \/ SetECBalance
    \/ UnmarshalBinaryData

SpecCommit == InitCommit /\ [][NextCommit]_vars

Validated == \E k \in 1..Len(msg.returned) : msg.returned[k] \in {0, 1}

\* C29: Validate returns -1 only for a message never validated whose
\* CommitEntry is not valid, and then leaves validsig false; once Validate
\* has returned 0 or 1 validsig stays true, and no later Validate returns -1
\* or asks IsValid again; every return other than -1 is 0 exactly when the
\* Credits exceed the balance of that moment and 1 otherwise, and no call
\* on a message that has been validated panics.
C29_ValidateOnceThenBalance ==
    /\ [][msg'.returned # msg.returned =>
            LET r == msg'.returned[Len(msg'.returned)] IN
            /\ r \in {-1, 0, 1}
            /\ r = -1 => /\ ~Validated
                         /\ ~msg.validsig
                         /\ ~msg.CommitEntry.isValid
                         /\ ~msg'.validsig
            /\ r # -1 => /\ msg'.validsig
                         /\ r = 0 <=> msg.CommitEntry.Credits > ebal
            /\ Validated => /\ r # -1
                            /\ msg'.isValidCalls = msg.isValidCalls]_vars
    /\ [](Validated => msg.validsig /\ ~msg.panicked)

C29_Witness ==
    /\ msg.held
    /\ msg.returned = <<-1, 0, 1>>
    /\ ~msg.CommitEntry.nil
    /\ ~msg.CommitEntry.isValid
    /\ msg.isValidCalls = 2

=============================================================================
